---- MODULE Spec2Model ----
(***************************************************************************)
(* Credit ledger and generation-request lifecycle of the content           *)
(* generation storefront: the zustand user store (useUserStore), the       *)
(* Firestore functions it calls (firestoreService), and the page handlers  *)
(* that spend credits (ImageGeneratorPage, VideoMakerPage).                *)
(*                                                                         *)
(* Every browser session runs single-threaded: the code between two awaits *)
(* is one atomic step.  A promise in flight sits in a per-session slot; its *)
(* continuation is an action of its own.                                   *)
(***************************************************************************)
EXTENDS Integers, Sequences, FiniteSets, TLC

\* ---------------------------------------------------------------- bounds
\* Largest credit balance a stored profile starts with.
MaxCredits == 5
\* Largest amount passed to a direct decrementCredits call.
MaxAmount == 2
\* How far below zero the explored stored balances go.
MaxDebt == 2

\* Most images a generation response returns.
MaxReturned == 2
\* Most generation records a run creates.
MaxRecords == 1
\* Most generation records created when the generations store is used alone.
MaxStored == 3
\* Most objects the explored runs keep in Firebase Storage.
MaxObjects == 2

\* ------------------------------------------------------------- constants
IMAGE_GENERATION_COST == 1
IMAGE_EDIT_COST == 1
VIDEO_GENERATION_COST == 5
\* The credits createUserProfile gives a new user.
DEFAULT_CREDITS == 10
\* The choices of "Number of Images": 1 .. 4.
MaxNumImages == 4
Sessions == {"s1", "s2"}
Owners == {"u1", "u2"}

\* A user profile: id, credits, name and subscriptionStatus of UserProfileData
\* (email, stripeCustomerId and the timestamps are carried like name).  The
\* profile of a user who never edited it:
Profile(o, c) == [id |-> o, credits |-> c, name |-> "", subscriptionStatus |-> "free"]
\* userProfile: null in the store.
Null == [id |-> "null", credits |-> 0, name |-> "", subscriptionStatus |-> "none"]
\* A users/{id} document that does not exist (doc.exists = false).
NoDoc == [exists |-> FALSE, credits |-> 0, name |-> "", subscriptionStatus |-> "none"]
Doc(c) == [exists |-> TRUE, credits |-> c, name |-> "", subscriptionStatus |-> "free"]

\* Amounts a caller may pass to decrementCredits (zero and negative included).
Amounts == (-1) .. MaxAmount

\* No promise of the kind in flight.
NoFetch == [phase |-> "idle", userId |-> "null", result |-> Null]
NoDeduct == [phase |-> "idle", currentProfile |-> Null, amount |-> 0]
\* The data a caller passes for a profile: `has' is the set of fields the
\* object carries, a field it does not carry holds the value it holds here.
NoData == [has |-> {}, credits |-> 0, name |-> "", subscriptionStatus |-> "none"]
\* { email, name? } as SignupPage and other callers may pass it: the name left
\* out, empty, or given.
SignupData ==
    {NoData, [NoData EXCEPT !.has = {"name"}],
     [NoData EXCEPT !.has = {"name"}, !.name = "ann"]}
\* Partial<Omit<UserProfileData, 'id' | 'createdAt'>>: no field, one field,
\* several fields.
ProfileUpdates ==
    {NoData,
     [NoData EXCEPT !.has = {"credits"}, !.credits = 1],
     [NoData EXCEPT !.has = {"name", "subscriptionStatus"}, !.name = "bob",
                    !.subscriptionStatus = "premium_monthly"]}
NoInitialize == [phase |-> "idle", userId |-> "null", data |-> NoData, result |-> Null]
NoUpdate == [phase |-> "idle", userId |-> "null", data |-> NoData, currentProfile |-> Null]

\* The data a page passes to addGeneration: owner, kind of generation, cost
\* (no status: the pages leave it out).
GenerationData(o, type, cost) ==
    [userId |-> o, type |-> type, cost |-> cost, status |-> "unset"]
NoRecord == [id |-> 0, userId |-> "null", type |-> "none", cost |-> 0,
             status |-> "none", createdAt |-> 0, updatedAt |-> 0]
NoRequest == [phase |-> "idle", kind |-> "none", userId |-> "null", totalCost |-> 0]
NoAdd == [phase |-> "idle", record |-> NoRecord]
\* A file name or a storage path is the sequence of its pieces; an empty one
\* is the empty sequence.
EmptyString == <<>>
NoRemove == [phase |-> "idle", storagePath |-> EmptyString, code |-> "none"]
NoUpload == [phase |-> "idle", storagePath |-> EmptyString]
NoPaymentRecord == [id |-> 0, userId |-> "null", amount |-> 0, status |-> "none",
                    createdAt |-> 0, updatedAt |-> 0]
NoPayment == [phase |-> "idle", record |-> NoPaymentRecord]
\* (newRecordId: the id addGeneration will return when it awaits this fetch, 0
\* when fetchUserGenerations was called on its own.)
NoGenFetch == [phase |-> "idle", userId |-> "null", result |-> <<>>, newRecordId |-> 0]

VARIABLES
    uid,          \* auth().currentUser.uid of each session
    users,        \* Firestore collection "users": owner id -> document
    userProfile,  \* useUserStore.userProfile of each session
    userLoading,  \* useUserStore.isLoading of each session
    userError,    \* useUserStore.error of each session (TRUE: an Error is set)
    fetch,        \* the fetchUserProfile call awaiting getUserProfile, if any
    deduct,       \* the decrementCredits call awaiting deductCreditsFromUser, if any
    initialize,   \* the initializeNewUserProfile call in flight, if any
    update,       \* the updateUserProfile call in flight, if any
    rejection,    \* the error the step just taken raised to its caller, if any
    pageLoading,  \* isLoading of the generation page each session shows
    request,      \* the generation request the page awaits, if any
    toast,        \* the notification the step just taken showed, if any
    returned,     \* what the call that ended in the step just taken returned
    objects,      \* Firebase Storage: the storage paths that hold an object
    remove,       \* the deleteFileFromFirebase call awaiting fileRef.delete(), if any
    upload,       \* the uploadFileToFirebase call in flight, if any
    paymentsDb,   \* Firestore collection "payments", in order of creation
    payAdd,       \* the addPaymentRecord call awaiting recordRef.set, if any
    generationsDb, \* Firestore collection "generations", in order of arrival
    generations,  \* useGenerationsStore.generations of each session
    genLoading,   \* useGenerationsStore.isLoading of each session
    genError,     \* useGenerationsStore.error of each session (TRUE: set)
    genAdd,       \* the addGeneration call awaiting addGenerationRecord, if any
    genFetch,     \* the fetchUserGenerations call awaiting getUserGenerations, if any
    genFetchEarlier, \* the fetchUserGenerations call a later call overtook, if any
    clock         \* records created so far: the source of ids and timestamps

userVars == <<uid, users, userProfile, userLoading, userError, fetch, deduct,
              initialize, update>>
pageVars == <<pageLoading, request>>
\* Firebase Storage and the payments collection, with the calls on them.
restVars == <<objects, remove, upload, paymentsDb, payAdd>>
\* The generations store and collection; the rest of storageService and of the
\* record functions of firestoreService goes with them.
genVars == <<generationsDb, generations, genLoading, genError, genAdd, genFetch, genFetchEarlier,
             clock, restVars>>
vars == <<userVars, pageVars, genVars, rejection, toast, returned>>

\* The errors the user store raises to its callers.
NoRejection == [sid |-> "none", error |-> "none"]
\* throw new Error("Insufficient credits or no user profile.")
Insufficient(s) == [sid |-> s, error |-> "insufficient"]
\* throw error: the failure of the write, rethrown by the catch block
WriteFailed(s) == [sid |-> s, error |-> "write failed"]
\* initializeNewUserProfile rethrows the error of its create or of its read.
InitializeFailed(s) == [sid |-> s, error |-> "initialize failed"]
\* updateUserProfile rethrows the error of its write.
UpdateFailed(s) == [sid |-> s, error |-> "update failed"]

\* No notification shown; the notification m shown in session s.
NoToast == [s \in Sessions |-> "none"]
Show(s, m) == [NoToast EXCEPT ![s] = m]
\* No call returned a value; addGeneration of session s returned the id of the
\* new record; addGeneration of session s returned undefined.
NoReturn == [sid |-> "none", defined |-> FALSE, id |-> 0]
ReturnedId(s, id) == [sid |-> s, defined |-> TRUE, id |-> id]
ReturnedUndefined(s) == [sid |-> s, defined |-> FALSE, id |-> 0]
\* A step that shows nothing, raises nothing and returns nothing.
Quiet == toast' = NoToast /\ rejection' = NoRejection /\ returned' = NoReturn

\* ------------------------------------------------- firestoreService
\* doc.data() of the document of owner o.
DocData(o) ==
    [id |-> o, credits |-> users[o].credits, name |-> users[o].name,
     subscriptionStatus |-> users[o].subscriptionStatus]

\* A read that makes up an empty profile for a missing document.
getUserProfile_Default(o) ==
    IF users[o].exists THEN DocData(o) ELSE Profile(o, 0)

\* getUserProfile: null when the document does not exist, else doc.data().
getUserProfile(o) ==
    IF users[o].exists THEN DocData(o) ELSE Null

\* deductCreditsFromUser returns early, writing nothing, unless the amount is
\* positive.
DeductIssuesWrite(amountToDeduct) == amountToDeduct > 0

\* A deduction that refuses to take the balance below zero (a plausible guard
\* the code does not have).
AtomicDeduct_Floored(doc, amountToDeduct) ==
    IF doc.credits < amountToDeduct THEN doc
    ELSE [doc EXCEPT !.credits = @ - amountToDeduct]

\* FieldValue.increment(-amountToDeduct) applied to the stored document: no
\* lower bound is checked.
AtomicDeduct(doc, amountToDeduct) ==
    [doc EXCEPT !.credits = @ - amountToDeduct]

\* data.name || "": a name left out or empty is stored as "".
NameOrEmpty(data) ==
    IF "name" \in data.has /\ data.name # "" THEN data.name ELSE ""

\* createUserProfile: the document userRef.set stores for a new user.
createUserProfile(data) ==
    [exists |-> TRUE, credits |-> DEFAULT_CREDITS, name |-> NameOrEmpty(data),
     subscriptionStatus |-> "free"]

\* { ...base, ...data }: the fields data carries replace those of base.
Spread(base, data) ==
    [base EXCEPT
        !.credits = IF "credits" \in data.has THEN data.credits ELSE @,
        !.name = IF "name" \in data.has THEN data.name ELSE @,
        !.subscriptionStatus = IF "subscriptionStatus" \in data.has
                               THEN data.subscriptionStatus ELSE @]

\* ------------------------------------------------------ useUserStore
\* A precondition that forgets the balance (a plausible slip).
InsufficientOrMissing_ProfileOnly(currentProfile, amount) ==
    currentProfile = Null

\* The precondition of decrementCredits: it throws when this holds.
InsufficientOrMissing(currentProfile, amount) ==
    currentProfile = Null \/ currentProfile.credits < amount

\* The optimistic update of decrementCredits.
OptimisticSubtract(profile, amount) ==
    IF profile = Null THEN Null ELSE [profile EXCEPT !.credits = @ - amount]

\* The revert of decrementCredits after a failed write.
RevertAdd(profile, amount) ==
    IF profile = Null THEN Null ELSE [profile EXCEPT !.credits = @ + amount]

\* A write issued whatever the amount (a plausible slip).
DeductCall_AnyAmount(currentProfile, amount) ==
    [phase |-> "sent", currentProfile |-> currentProfile, amount |-> amount]

\* The write decrementCredits awaits after its optimistic update: addressed
\* to currentProfile.id, for the amount of the call.
DeductCall(currentProfile, amount) ==
    IF DeductIssuesWrite(amount)
    THEN [phase |-> "sent", currentProfile |-> currentProfile, amount |-> amount]
    ELSE NoDeduct

\* The synchronous part of decrementCredits(amount) in session s: whether it
\* threw, the profile it leaves in the store, and the write it awaits.
DecrementSync(s, amount) ==
    LET currentProfile == userProfile[s] IN
    IF InsufficientOrMissing(currentProfile, amount)
    THEN [threw |-> TRUE, profile |-> currentProfile, write |-> NoDeduct]
    ELSE [threw |-> FALSE,
          profile |-> OptimisticSubtract(currentProfile, amount),
          write |-> DeductCall(currentProfile, amount)]

\* The amount of the write of session s in flight for owner o (0 if none).
InFlightFor(s, o) ==
    IF deduct[s].phase = "sent" /\ deduct[s].currentProfile.id = o
    THEN deduct[s].amount ELSE 0

RECURSIVE SumInFlight(_, _)
SumInFlight(S, o) ==
    IF S = {} THEN 0
    ELSE LET s == CHOOSE x \in S : TRUE
         IN InFlightFor(s, o) + SumInFlight(S \ {s}, o)

\* The exploration bound on the call r of decrementCredits in session s: the
\* local balance stays at or below MaxCredits and, with every write in flight
\* landed, the stored balance stays at or above -MaxDebt.
Explored(s, r) ==
    /\ r.profile.credits <= MaxCredits
    /\ r.write.phase = "sent" =>
         /\ deduct[s] = NoDeduct
         /\ LET o == r.write.currentProfile.id IN
            users[o].credits - SumInFlight(Sessions, o) - r.write.amount >= -MaxDebt

\* fetchUserProfile(userId), called by the dashboard with the signed-in
\* user's id: set the flags, then await getUserProfile.
fetchUserProfile(s) ==
    /\ fetch[s] = NoFetch
    /\ userLoading' = [userLoading EXCEPT ![s] = TRUE]
    /\ userError' = [userError EXCEPT ![s] = FALSE]
    /\ fetch' = [fetch EXCEPT ![s] =
                    [phase |-> "sent", userId |-> uid[s], result |-> Null]]
    /\ Quiet /\ UNCHANGED <<pageVars, genVars, initialize, update, uid, users, userProfile, deduct>>

\* The store serves the read of the fetch in flight: the reply carries the
\* document as it is now.
getUserProfileServed(s) ==
    /\ fetch[s].phase = "sent"
    /\ fetch' = [fetch EXCEPT ![s] =
                    [phase |-> "served", userId |-> fetch[s].userId,
                     result |-> getUserProfile(fetch[s].userId)]]
    /\ Quiet /\ UNCHANGED <<pageVars, genVars, initialize, update, uid, users, userProfile, userLoading, userError, deduct>>

\* The reply of the served read reaches the session: the profile is replaced.
fetchUserProfileResolved(s) ==
    /\ fetch[s].phase = "served"
    /\ userProfile' = [userProfile EXCEPT ![s] = fetch[s].result]
    /\ userLoading' = [userLoading EXCEPT ![s] = FALSE]
    /\ fetch' = [fetch EXCEPT ![s] = NoFetch]
    /\ Quiet /\ UNCHANGED <<pageVars, genVars, initialize, update, uid, users, userError, deduct>>

\* The read fails: the error is kept in the store, the profile stays.
fetchUserProfileFailed(s) ==
    /\ fetch[s].phase = "sent"
    /\ userError' = [userError EXCEPT ![s] = TRUE]
    /\ userLoading' = [userLoading EXCEPT ![s] = FALSE]
    /\ fetch' = [fetch EXCEPT ![s] = NoFetch]
    /\ Quiet /\ UNCHANGED <<pageVars, genVars, initialize, update, uid, users, userProfile, deduct>>

\* The effect of a call decrementCredits(amount) in session s on the user
\* store, up to its first await: the check, the optimistic update and the
\* issue of the write.
decrementCreditsCall(s, amount) ==
    LET r == DecrementSync(s, amount) IN
    /\ Explored(s, r)
    /\ userProfile' = [userProfile EXCEPT ![s] = r.profile]
    /\ deduct' = IF r.write.phase = "sent"
                 THEN [deduct EXCEPT ![s] = r.write] ELSE deduct
    /\ rejection' = IF r.threw THEN Insufficient(s) ELSE NoRejection
    /\ UNCHANGED <<uid, users, userLoading, userError, fetch, initialize, update>>

\* decrementCredits(amount) called on the store directly.
decrementCredits(s, amount) ==
    /\ decrementCreditsCall(s, amount)
    /\ toast' = NoToast
    /\ returned' = NoReturn
    /\ UNCHANGED <<pageVars, genVars>>

\* A write that stores the balance the session computed (read-modify-write on
\* the snapshot taken at the call) instead of an atomic increment.
decrementCreditsResolved_ReadModifyWrite(s) ==
    /\ deduct[s].phase = "sent"
    /\ users[deduct[s].currentProfile.id].exists
    /\ users' = [users EXCEPT ![deduct[s].currentProfile.id].credits =
                    deduct[s].currentProfile.credits - deduct[s].amount]
    /\ deduct' = [deduct EXCEPT ![s] = NoDeduct]
    /\ Quiet /\ UNCHANGED <<pageVars, genVars, initialize, update, uid, userProfile, userLoading, userError, fetch>>

\* The write of the decrementCredits call lands: the stored balance drops and
\* the call returns.
decrementCreditsResolved(s) ==
    /\ deduct[s].phase = "sent"
    /\ users[deduct[s].currentProfile.id].exists
    /\ users' = [users EXCEPT ![deduct[s].currentProfile.id] =
                    AtomicDeduct(@, deduct[s].amount)]
    /\ deduct' = [deduct EXCEPT ![s] = NoDeduct]
    /\ Quiet /\ UNCHANGED <<pageVars, genVars, initialize, update, uid, userProfile, userLoading, userError, fetch>>

\* The write of the decrementCredits call fails: the catch block adds the
\* amount back to whatever profile the store holds now and rethrows.
decrementCreditsFailed(s) ==
    /\ deduct[s].phase = "sent"
    /\ userProfile' = [userProfile EXCEPT ![s] = RevertAdd(@, deduct[s].amount)]
    /\ deduct' = [deduct EXCEPT ![s] = NoDeduct]
    /\ rejection' = WriteFailed(s)
    /\ toast' = NoToast
    /\ returned' = NoReturn
    /\ UNCHANGED <<pageVars, genVars, initialize, update, uid, users, userLoading, userError, fetch>>

\* initializeNewUserProfile(userId, data): set the flags, then await
\* createUserProfile.
initializeNewUserProfile(s, userId, data) ==
    /\ initialize[s] = NoInitialize
    /\ userLoading' = [userLoading EXCEPT ![s] = TRUE]
    /\ userError' = [userError EXCEPT ![s] = FALSE]
    /\ initialize' = [initialize EXCEPT ![s] =
                        [phase |-> "creating", userId |-> userId, data |-> data,
                         result |-> Null]]
    /\ Quiet /\ UNCHANGED <<pageVars, genVars, uid, users, userProfile, fetch, deduct, update>>

\* userRef.set(profileData) lands: the document is created, or replaced; the
\* call goes on to await getUserProfile.
createUserProfileWritten(s) ==
    /\ initialize[s].phase = "creating"
    /\ users' = [users EXCEPT ![initialize[s].userId] =
                    createUserProfile(initialize[s].data)]
    /\ initialize' = [initialize EXCEPT ![s].phase = "reading"]
    /\ Quiet /\ UNCHANGED <<pageVars, genVars, uid, userProfile, userLoading, userError,
                            fetch, deduct, update>>

\* The store serves the read that follows the create.
initializeGetUserProfileServed(s) ==
    /\ initialize[s].phase = "reading"
    /\ initialize' = [initialize EXCEPT ![s].phase = "served",
                                        ![s].result = getUserProfile(initialize[s].userId)]
    /\ Quiet /\ UNCHANGED <<pageVars, genVars, uid, users, userProfile, userLoading,
                            userError, fetch, deduct, update>>

\* A version that keeps the object it sent to the store instead of the one it
\* read back.
initializeNewUserProfileResolved_Local(s) ==
    /\ initialize[s].phase = "served"
    /\ userProfile' = [userProfile EXCEPT ![s] =
            [id |-> initialize[s].userId, credits |-> DEFAULT_CREDITS,
             name |-> NameOrEmpty(initialize[s].data), subscriptionStatus |-> "free"]]
    /\ userLoading' = [userLoading EXCEPT ![s] = FALSE]
    /\ initialize' = [initialize EXCEPT ![s] = NoInitialize]
    /\ Quiet /\ UNCHANGED <<pageVars, genVars, uid, users, userError, fetch, deduct, update>>

\* The reply of the read reaches the session: the profile read is set.
initializeNewUserProfileResolved(s) ==
    /\ initialize[s].phase = "served"
    /\ userProfile' = [userProfile EXCEPT ![s] = initialize[s].result]
    /\ userLoading' = [userLoading EXCEPT ![s] = FALSE]
    /\ initialize' = [initialize EXCEPT ![s] = NoInitialize]
    /\ Quiet /\ UNCHANGED <<pageVars, genVars, uid, users, userError, fetch, deduct, update>>

\* The create, or the read after it, fails: the error is kept and rethrown.
initializeNewUserProfileFailed(s) ==
    /\ initialize[s].phase \in {"creating", "reading"}
    /\ userError' = [userError EXCEPT ![s] = TRUE]
    /\ userLoading' = [userLoading EXCEPT ![s] = FALSE]
    /\ initialize' = [initialize EXCEPT ![s] = NoInitialize]
    /\ rejection' = InitializeFailed(s)
    /\ toast' = NoToast
    /\ returned' = NoReturn
    /\ UNCHANGED <<pageVars, genVars, uid, users, userProfile, fetch, deduct, update>>

\* updateUserProfile(userId, data): set the flags, take the profile the store
\* holds, then await the write.
updateUserProfile(s, userId, data) ==
    /\ update[s] = NoUpdate
    /\ userLoading' = [userLoading EXCEPT ![s] = TRUE]
    /\ userError' = [userError EXCEPT ![s] = FALSE]
    /\ update' = [update EXCEPT ![s] =
                    [phase |-> "sent", userId |-> userId, data |-> data,
                     currentProfile |-> userProfile[s]]]
    /\ Quiet /\ UNCHANGED <<pageVars, genVars, uid, users, userProfile, fetch, deduct, initialize>>

\* userRef.update({...data, updatedAt}) lands on an existing document.
updateUserProfileWritten(s) ==
    /\ update[s].phase = "sent"
    /\ users[update[s].userId].exists
    /\ users' = [users EXCEPT ![update[s].userId] = Spread(@, update[s].data)]
    /\ update' = [update EXCEPT ![s].phase = "written"]
    /\ Quiet /\ UNCHANGED <<pageVars, genVars, uid, userProfile, userLoading, userError,
                            fetch, deduct, initialize>>

\* A version that merges into the profile the store holds when the write
\* returns.
updateUserProfileResolved_MergeCurrent(s) ==
    /\ update[s].phase = "written"
    /\ userProfile' = [userProfile EXCEPT ![s] =
            [Spread(@, update[s].data) EXCEPT !.id = update[s].userId]]
    /\ userLoading' = [userLoading EXCEPT ![s] = FALSE]
    /\ update' = [update EXCEPT ![s] = NoUpdate]
    /\ Quiet /\ UNCHANGED <<pageVars, genVars, uid, users, userError, fetch, deduct, initialize>>

\* The write returned: { ...currentProfile, ...data, id: userId } is set.
updateUserProfileResolved(s) ==
    /\ update[s].phase = "written"
    /\ userProfile' = [userProfile EXCEPT ![s] =
            [Spread(update[s].currentProfile, update[s].data)
                EXCEPT !.id = update[s].userId]]
    /\ userLoading' = [userLoading EXCEPT ![s] = FALSE]
    /\ update' = [update EXCEPT ![s] = NoUpdate]
    /\ Quiet /\ UNCHANGED <<pageVars, genVars, uid, users, userError, fetch, deduct, initialize>>

\* The write fails (the document is missing, or the store is unreachable):
\* the error is kept and rethrown.
updateUserProfileFailed(s) ==
    /\ update[s].phase = "sent"
    /\ userError' = [userError EXCEPT ![s] = TRUE]
    /\ userLoading' = [userLoading EXCEPT ![s] = FALSE]
    /\ update' = [update EXCEPT ![s] = NoUpdate]
    /\ rejection' = UpdateFailed(s)
    /\ toast' = NoToast
    /\ returned' = NoReturn
    /\ UNCHANGED <<pageVars, genVars, uid, users, userProfile, fetch, deduct, initialize>>

\* A version of incrementCredits that also writes the new balance.
incrementCredits_Persisted(s, amount) ==
    /\ userProfile[s] # Null =>
          userProfile[s].credits + amount \in 0 .. (MaxCredits + MaxAmount)
    /\ userProfile' = IF userProfile[s] # Null
                      THEN [userProfile EXCEPT ![s].credits = @ + amount]
                      ELSE userProfile
    /\ users' = IF userProfile[s] # Null /\ users[userProfile[s].id].exists
                THEN [users EXCEPT ![userProfile[s].id].credits =
                         userProfile[s].credits + amount]
                ELSE users
    /\ Quiet /\ UNCHANGED <<pageVars, genVars, uid, userLoading, userError, fetch,
                            deduct, initialize, update>>

\* incrementCredits(amount): the balance of the loaded profile grows in the
\* store of the session only; nothing happens when no profile is loaded.
\* Explored while the balance stays within the range given here.
incrementCredits(s, amount) ==
    /\ userProfile[s] # Null =>
          userProfile[s].credits + amount \in 0 .. (MaxCredits + MaxAmount)
    /\ userProfile' = IF userProfile[s] # Null
                      THEN [userProfile EXCEPT ![s].credits = @ + amount]
                      ELSE userProfile
    /\ Quiet /\ UNCHANGED <<pageVars, genVars, uid, users, userLoading, userError, fetch,
                            deduct, initialize, update>>

\* ------------------------------------- firestoreService: generations
\* addGenerationRecord builds the stored record: the data, the generated id,
\* status "completed" unless one is given, and the creation time.
NewRecord(generationData, id, now) ==
    [id |-> id, userId |-> generationData.userId, type |-> generationData.type,
     cost |-> generationData.cost,
     status |-> IF generationData.status = "unset" THEN "completed"
                ELSE generationData.status,
     createdAt |-> now, updatedAt |-> now]

\* orderBy("createdAt", "desc"): insertion of a record into a list kept in
\* non-increasing order of creation time.
RECURSIVE InsertDesc(_, _)
InsertDesc(rec, q) ==
    IF q = <<>> THEN <<rec>>
    ELSE IF rec.createdAt >= Head(q).createdAt THEN <<rec>> \o q
    ELSE <<Head(q)>> \o InsertDesc(rec, Tail(q))

\* A query without its orderBy clause: the documents in insertion order.
OrderByCreatedAtDesc_Unsorted(q) == q

RECURSIVE OrderByCreatedAtDesc(_)
OrderByCreatedAtDesc(q) ==
    IF q = <<>> THEN <<>> ELSE InsertDesc(Head(q), OrderByCreatedAtDesc(Tail(q)))

\* where("userId", "==", userId)
RECURSIVE WhereUserId(_, _)
WhereUserId(q, o) ==
    IF q = <<>> THEN <<>>
    ELSE IF Head(q).userId = o THEN <<Head(q)>> \o WhereUserId(Tail(q), o)
    ELSE WhereUserId(Tail(q), o)

\* getUserGenerations: the owner's records, newest first.
getUserGenerations(o) == OrderByCreatedAtDesc(WhereUserId(generationsDb, o))

\* ---------------------------------------- firestoreService: payments
\* The payment data a caller may pass: amount in cents and status.
PaymentInputs == [amount : {500}, status : {"pending", "succeeded"}]

\* addPaymentRecord builds the stored record: the generated id, the owner,
\* the data, and the creation time.
NewPaymentRecord(userId, paymentData, id, now) ==
    [id |-> id, userId |-> userId, amount |-> paymentData.amount,
     status |-> paymentData.status, createdAt |-> now, updatedAt |-> now]

\* addPaymentRecord(userId, paymentData) up to its await: a document with a
\* fresh id is built and its write is awaited.  (Explored while the previous
\* call has returned and fewer than MaxStored records were created.)
addPaymentRecord(s, userId, paymentData) ==
    /\ payAdd[s] = NoPayment
    /\ clock < MaxStored
    /\ payAdd' = [payAdd EXCEPT ![s] =
          [phase |-> "sent",
           record |-> NewPaymentRecord(userId, paymentData, clock + 1, clock + 1)]]
    /\ clock' = clock + 1
    /\ Quiet
    /\ UNCHANGED <<userVars, pageVars, generationsDb, generations, genLoading, genError,
                   genAdd, genFetch, genFetchEarlier, objects, remove, upload, paymentsDb>>

\* A write to a document with a fixed id: it replaces the record before it.
addPaymentRecordWritten_Overwrites(s) ==
    /\ payAdd[s].phase = "sent"
    /\ paymentsDb' = IF paymentsDb = <<>> THEN <<payAdd[s].record>>
                     ELSE [paymentsDb EXCEPT ![Len(paymentsDb)] = payAdd[s].record]
    /\ payAdd' = [payAdd EXCEPT ![s] = NoPayment]
    /\ returned' = ReturnedId(s, payAdd[s].record.id)
    /\ toast' = NoToast
    /\ rejection' = NoRejection
    /\ UNCHANGED <<userVars, pageVars, generationsDb, generations, genLoading, genError,
                   genAdd, genFetch, genFetchEarlier, objects, remove, upload, clock>>

\* recordRef.set(newRecord) lands on the new document; the id is returned.
addPaymentRecordWritten(s) ==
    /\ payAdd[s].phase = "sent"
    /\ paymentsDb' = Append(paymentsDb, payAdd[s].record)
    /\ payAdd' = [payAdd EXCEPT ![s] = NoPayment]
    /\ returned' = ReturnedId(s, payAdd[s].record.id)
    /\ toast' = NoToast
    /\ rejection' = NoRejection
    /\ UNCHANGED <<userVars, pageVars, generationsDb, generations, genLoading, genError,
                   genAdd, genFetch, genFetchEarlier, objects, remove, upload, clock>>

\* The write fails: the error is thrown again.
addPaymentRecordFailed(s) ==
    /\ payAdd[s].phase = "sent"
    /\ payAdd' = [payAdd EXCEPT ![s] = NoPayment]
    /\ rejection' = WriteFailed(s)
    /\ toast' = NoToast
    /\ returned' = NoReturn
    /\ UNCHANGED <<userVars, pageVars, generationsDb, generations, genLoading, genError,
                   genAdd, genFetch, genFetchEarlier, objects, remove, upload, paymentsDb, clock>>

\* ------------------------------------------------ useGenerationsStore
\* The synchronous part of addGeneration(data) in session s: the flags are
\* set and the write of the new record is awaited.
addGenerationCall(s, data) ==
    /\ genLoading' = [genLoading EXCEPT ![s] = TRUE]
    /\ genError' = [genError EXCEPT ![s] = FALSE]
    /\ genAdd' = [genAdd EXCEPT ![s] =
                    [phase |-> "sent", record |-> NewRecord(data, clock + 1, clock + 1)]]
    /\ clock' = clock + 1
    /\ UNCHANGED <<generationsDb, generations, genFetch, restVars, genFetchEarlier>>

\* addGeneration(data) called on its own.  (Explored while the previous call
\* has returned from its write and fewer than MaxStored records were created.)
addGeneration(s, data) ==
    /\ genAdd[s] = NoAdd
    /\ clock < MaxStored
    /\ addGenerationCall(s, data)
    /\ Quiet
    /\ UNCHANGED <<userVars, pageVars, restVars, genFetchEarlier>>

\* fetchUserGenerations(userId) called on its own: the flags are set and the
\* query is awaited.
fetchUserGenerations(s, o) ==
    /\ genFetch[s] = NoGenFetch
    /\ genLoading' = [genLoading EXCEPT ![s] = TRUE]
    /\ genError' = [genError EXCEPT ![s] = FALSE]
    /\ genFetch' = [genFetch EXCEPT ![s] =
                      [phase |-> "sent", userId |-> o, result |-> <<>>,
                       newRecordId |-> 0]]
    /\ Quiet
    /\ UNCHANGED <<userVars, pageVars, restVars, genFetchEarlier, generationsDb, generations, genAdd, clock>>

\* An addGeneration that appends what it was given to the local collection
\* and returns, without the re-fetch.
addGenerationWritten_AppendsLocally(s) ==
    /\ genAdd[s].phase = "sent"
    /\ genFetch[s] = NoGenFetch
    /\ generationsDb' = Append(generationsDb, genAdd[s].record)
    /\ generations' = [generations EXCEPT ![s] =
                         <<[genAdd[s].record EXCEPT
                              !.id = 0, !.createdAt = 0, !.updatedAt = 0]>> \o @]
    /\ genAdd' = [genAdd EXCEPT ![s] = NoAdd]
    /\ genLoading' = [genLoading EXCEPT ![s] = FALSE]
    /\ toast' = NoToast /\ rejection' = NoRejection
    /\ returned' = ReturnedId(s, genAdd[s].record.id)
    /\ UNCHANGED <<userVars, pageVars, restVars, genFetchEarlier, genError, genFetch, clock>>

\* The write of addGeneration lands; addGeneration goes on to call
\* fetchUserGenerations(data.userId), which sets the flags and awaits the read.
addGenerationWritten(s) ==
    /\ genAdd[s].phase = "sent"
    /\ genFetch[s] = NoGenFetch
    /\ generationsDb' = Append(generationsDb, genAdd[s].record)
    /\ genAdd' = [genAdd EXCEPT ![s] = NoAdd]
    /\ genLoading' = [genLoading EXCEPT ![s] = TRUE]
    /\ genError' = [genError EXCEPT ![s] = FALSE]
    /\ genFetch' = [genFetch EXCEPT ![s] =
                      [phase |-> "sent", userId |-> genAdd[s].record.userId,
                       result |-> <<>>, newRecordId |-> genAdd[s].record.id]]
    /\ Quiet
    /\ UNCHANGED <<userVars, pageVars, restVars, genFetchEarlier, generations, clock>>

\* An addGeneration whose catch block rethrows.
addGenerationFailed_Rethrows(s) ==
    /\ genAdd[s].phase = "sent"
    /\ genAdd' = [genAdd EXCEPT ![s] = NoAdd]
    /\ genError' = [genError EXCEPT ![s] = TRUE]
    /\ genLoading' = [genLoading EXCEPT ![s] = FALSE]
    /\ toast' = NoToast /\ rejection' = WriteFailed(s)
    /\ returned' = NoReturn
    /\ UNCHANGED <<userVars, pageVars, restVars, genFetchEarlier, generationsDb, generations, genFetch, clock>>

\* The write of addGeneration fails: the error is kept, undefined is returned.
addGenerationFailed(s) ==
    /\ genAdd[s].phase = "sent"
    /\ genAdd' = [genAdd EXCEPT ![s] = NoAdd]
    /\ genError' = [genError EXCEPT ![s] = TRUE]
    /\ genLoading' = [genLoading EXCEPT ![s] = FALSE]
    /\ toast' = NoToast /\ rejection' = NoRejection
    /\ returned' = ReturnedUndefined(s)
    /\ UNCHANGED <<userVars, pageVars, restVars, genFetchEarlier, generationsDb, generations, genFetch, clock>>

\* The store serves the query of the fetch in flight.
getUserGenerationsServed(s) ==
    /\ genFetch[s].phase = "sent"
    /\ genFetch' = [genFetch EXCEPT ![s] =
                      [genFetch[s] EXCEPT
                          !.phase = "served",
                          !.result = getUserGenerations(genFetch[s].userId)]]
    /\ Quiet
    /\ UNCHANGED <<userVars, pageVars, restVars, genFetchEarlier, generationsDb, generations, genLoading,
                   genError, genAdd, clock>>

\* What the end of the fetch in flight returns to a caller: addGeneration,
\* when it awaited this fetch, clears the loading flag and returns the new id.
AfterFetch(s) ==
    IF genFetch[s].newRecordId # 0 THEN ReturnedId(s, genFetch[s].newRecordId)
    ELSE NoReturn

\* The reply reaches the session: the local collection is replaced.
fetchUserGenerationsResolved(s) ==
    /\ genFetch[s].phase = "served"
    /\ generations' = [generations EXCEPT ![s] = genFetch[s].result]
    /\ genLoading' = [genLoading EXCEPT ![s] = FALSE]
    /\ genFetch' = [genFetch EXCEPT ![s] = NoGenFetch]
    /\ toast' = NoToast /\ rejection' = NoRejection
    /\ returned' = AfterFetch(s)
    /\ UNCHANGED <<userVars, pageVars, restVars, genFetchEarlier, generationsDb, genError, genAdd, clock>>

\* The query fails: the error is kept, the local collection stays.
fetchUserGenerationsFailed(s) ==
    /\ genFetch[s].phase = "sent"
    /\ genError' = [genError EXCEPT ![s] = TRUE]
    /\ genLoading' = [genLoading EXCEPT ![s] = FALSE]
    /\ genFetch' = [genFetch EXCEPT ![s] = NoGenFetch]
    /\ toast' = NoToast /\ rejection' = NoRejection
    /\ returned' = AfterFetch(s)
    /\ UNCHANGED <<userVars, pageVars, restVars, genFetchEarlier, generationsDb, generations, genAdd, clock>>

\* fetchUserGenerations(userId) called while an earlier call still awaits
\* its query: nothing cancels the earlier call, both are in flight.
fetchUserGenerationsAgain(s, o) ==
    /\ genFetch[s] # NoGenFetch
    /\ genFetchEarlier[s] = NoGenFetch
    /\ genLoading' = [genLoading EXCEPT ![s] = TRUE]
    /\ genError' = [genError EXCEPT ![s] = FALSE]
    /\ genFetchEarlier' = [genFetchEarlier EXCEPT ![s] = genFetch[s]]
    /\ genFetch' = [genFetch EXCEPT ![s] =
                      [phase |-> "sent", userId |-> o, result |-> <<>>,
                       newRecordId |-> 0]]
    /\ Quiet
    /\ UNCHANGED <<userVars, pageVars, restVars, generationsDb, generations, genAdd, clock>>

\* The store serves the query of the earlier call.
earlierGetUserGenerationsServed(s) ==
    /\ genFetchEarlier[s].phase = "sent"
    /\ genFetchEarlier' = [genFetchEarlier EXCEPT ![s] =
                      [genFetchEarlier[s] EXCEPT
                          !.phase = "served",
                          !.result = getUserGenerations(genFetchEarlier[s].userId)]]
    /\ Quiet
    /\ UNCHANGED <<userVars, pageVars, restVars, generationsDb, generations, genLoading,
                   genError, genAdd, genFetch, clock>>

\* The reply of the earlier call reaches the session: the local collection
\* is replaced, whatever a later call has set.
earlierFetchUserGenerationsResolved(s) ==
    /\ genFetchEarlier[s].phase = "served"
    /\ generations' = [generations EXCEPT ![s] = genFetchEarlier[s].result]
    /\ genLoading' = [genLoading EXCEPT ![s] = FALSE]
    /\ genFetchEarlier' = [genFetchEarlier EXCEPT ![s] = NoGenFetch]
    /\ toast' = NoToast /\ rejection' = NoRejection
    /\ returned' = IF genFetchEarlier[s].newRecordId # 0
                   THEN ReturnedId(s, genFetchEarlier[s].newRecordId) ELSE NoReturn
    /\ UNCHANGED <<userVars, pageVars, restVars, generationsDb, genError, genAdd,
                   genFetch, clock>>

\* The query of the earlier call fails: the error is kept.
earlierFetchUserGenerationsFailed(s) ==
    /\ genFetchEarlier[s].phase = "sent"
    /\ genError' = [genError EXCEPT ![s] = TRUE]
    /\ genLoading' = [genLoading EXCEPT ![s] = FALSE]
    /\ genFetchEarlier' = [genFetchEarlier EXCEPT ![s] = NoGenFetch]
    /\ toast' = NoToast /\ rejection' = NoRejection
    /\ returned' = IF genFetchEarlier[s].newRecordId # 0
                   THEN ReturnedId(s, genFetchEarlier[s].newRecordId) ELSE NoReturn
    /\ UNCHANGED <<userVars, pageVars, restVars, generationsDb, generations, genAdd,
                   genFetch, clock>>

\* ------------------------------------------- storageService: Storage
\* The characters the regular expression [a-zA-Z0-9._-] accepts.
Letters ==
    {"a", "b", "c", "d", "e", "f", "g", "h", "i", "j", "k", "l", "m",
     "n", "o", "p", "q", "r", "s", "t", "u", "v", "w", "x", "y", "z",
     "A", "B", "C", "D", "E", "F", "G", "H", "I", "J", "K", "L", "M",
     "N", "O", "P", "Q", "R", "S", "T", "U", "V", "W", "X", "Y", "Z"}
Digits == {"0", "1", "2", "3", "4", "5", "6", "7", "8", "9"}
FileNameChars == Letters \cup Digits \cup {".", "_", "-"}

\* A replacement that lets the path separator through (a plausible slip).
sanitizedFileName_KeepsSlash(name) ==
    [i \in 1 .. Len(name) |->
        IF name[i] \in FileNameChars \cup {"/"} THEN name[i] ELSE "_"]

\* file.name.replace(/[^a-zA-Z0-9._-]/g, '_')
sanitizedFileName(name) ==
    [i \in 1 .. Len(name) |-> IF name[i] \in FileNameChars THEN name[i] ELSE "_"]

\* `generations/${contentType}/${userId}/${timestamp}_${sanitizedFileName}`:
\* the path as the sequence of its pieces, the sanitized name character by
\* character.
StoragePath(userId, contentType, timestamp, name) ==
    <<"generations", "/", contentType, "/", userId, "/", timestamp, "_">>
        \o sanitizedFileName(name)

\* The files a caller may pass: none (null), or a File with one of these names.
NoFile == [present |-> FALSE, name |-> EmptyString]
File(name) == [present |-> TRUE, name |-> name]
FileNames ==
    {<<"c", "a", "t", ".", "p", "n", "g">>,
     <<"m", "y", " ", "c", "a", "t">>,
     <<".", ".", "/", "x", "-", "1">>,
     <<"Z", "_", "#">>}
Files == {NoFile} \cup {File(name) : name \in FileNames}
\* Date.now() at the calls explored.
Timestamps == {"1700000000000", "1700000000001"}
ContentTypes == {"image", "video"}
\* The user ids a caller may pass: empty, or an owner.
UploadUserIds == {"", "u1"}

\* What uploadFileToFirebase and deleteFileFromFirebase throw.
UserIdRequired(s) == [sid |-> s, error |-> "User ID is required for uploading files."]
FileRequired(s) == [sid |-> s, error |-> "File object is required for uploading."]
UploadFailed(s) == [sid |-> s, error |-> "upload failed"]
PathRequired(s) == [sid |-> s, error |-> "Storage path is required to delete a file."]
StorageFailed(s) == [sid |-> s, error |-> "storage error"]

\* uploadFileToFirebase(userId, file, contentType) at time timestamp, up to
\* fileRef.put(file): an empty user id or a missing file throws before any
\* storage call.  (Explored while fewer than MaxObjects objects are stored.)
uploadFileToFirebase(s, userId, file, contentType, timestamp) ==
    /\ upload[s] = NoUpload
    /\ Cardinality(objects) < MaxObjects
    /\ IF userId = ""
       THEN rejection' = UserIdRequired(s) /\ upload' = upload
       ELSE IF ~file.present
       THEN rejection' = FileRequired(s) /\ upload' = upload
       ELSE /\ rejection' = NoRejection
            /\ upload' = [upload EXCEPT ![s] =
                  [phase |-> "sent",
                   storagePath |-> StoragePath(userId, contentType, timestamp, file.name)]]
    /\ toast' = NoToast
    /\ returned' = NoReturn
    /\ UNCHANGED <<userVars, pageVars, generationsDb, generations, genLoading, genError,
                   genAdd, genFetch, genFetchEarlier, clock, objects, remove, paymentsDb, payAdd>>

\* The upload task completes: the object is stored at the path, and the
\* download URL is awaited.
uploadStored(s) ==
    /\ upload[s].phase = "sent"
    /\ objects' = objects \cup {upload[s].storagePath}
    /\ upload' = [upload EXCEPT ![s].phase = "stored"]
    /\ Quiet
    /\ UNCHANGED <<userVars, pageVars, generationsDb, generations, genLoading, genError,
                   genAdd, genFetch, genFetchEarlier, clock, remove, paymentsDb, payAdd>>

\* getDownloadURL answers: the promise resolves with the URL and the path.
uploadResolved(s) ==
    /\ upload[s].phase = "stored"
    /\ upload' = [upload EXCEPT ![s] = NoUpload]
    /\ Quiet
    /\ UNCHANGED <<userVars, pageVars, generationsDb, generations, genLoading, genError,
                   genAdd, genFetch, genFetchEarlier, clock, objects, remove, paymentsDb, payAdd>>

\* The upload task, or getDownloadURL after it, fails: the promise rejects.
uploadFailed(s) ==
    /\ upload[s].phase \in {"sent", "stored"}
    /\ upload' = [upload EXCEPT ![s] = NoUpload]
    /\ rejection' = UploadFailed(s)
    /\ toast' = NoToast
    /\ returned' = NoReturn
    /\ UNCHANGED <<userVars, pageVars, generationsDb, generations, genLoading, genError,
                   genAdd, genFetch, genFetchEarlier, clock, objects, remove, paymentsDb, payAdd>>

\* deleteFileFromFirebase(storagePath) up to fileRef.delete(): an empty path
\* throws before any storage call.
deleteFileFromFirebase(s, storagePath) ==
    /\ remove[s] = NoRemove
    /\ IF storagePath = EmptyString
       THEN rejection' = PathRequired(s) /\ remove' = remove
       ELSE /\ rejection' = NoRejection
            /\ remove' = [remove EXCEPT ![s] =
                             [phase |-> "sent", storagePath |-> storagePath,
                              code |-> "none"]]
    /\ toast' = NoToast
    /\ returned' = NoReturn
    /\ UNCHANGED <<userVars, pageVars, generationsDb, generations, genLoading, genError,
                   genAdd, genFetch, genFetchEarlier, clock, objects, upload, paymentsDb, payAdd>>

\* Storage serves fileRef.delete(): the object is removed, or there is none
\* and Storage answers storage/object-not-found.
fileRefDelete(s) ==
    /\ remove[s].phase = "sent"
    /\ objects' = objects \ {remove[s].storagePath}
    /\ remove' = [remove EXCEPT ![s].phase = "answered",
                                ![s].code = IF remove[s].storagePath \in objects
                                            THEN "ok" ELSE "storage/object-not-found"]
    /\ Quiet
    /\ UNCHANGED <<userVars, pageVars, generationsDb, generations, genLoading, genError,
                   genAdd, genFetch, genFetchEarlier, clock, upload, paymentsDb, payAdd>>

\* fileRef.delete() fails with another error.
fileRefDeleteFailed(s) ==
    /\ remove[s].phase = "sent"
    /\ remove' = [remove EXCEPT ![s].phase = "answered",
                                ![s].code = "storage/unauthorized"]
    /\ Quiet
    /\ UNCHANGED <<userVars, pageVars, generationsDb, generations, genLoading, genError,
                   genAdd, genFetch, genFetchEarlier, clock, objects, upload, paymentsDb, payAdd>>

\* A catch block that throws every error again, object-not-found included.
deleteFileFromFirebaseReturned_RethrowsAll(s) ==
    /\ remove[s].phase = "answered"
    /\ remove' = [remove EXCEPT ![s] = NoRemove]
    /\ rejection' = IF remove[s].code = "ok" THEN NoRejection ELSE StorageFailed(s)
    /\ toast' = NoToast
    /\ returned' = NoReturn
    /\ UNCHANGED <<userVars, pageVars, generationsDb, generations, genLoading, genError,
                   genAdd, genFetch, genFetchEarlier, clock, objects, upload, paymentsDb, payAdd>>

\* deleteFileFromFirebase after its await: it returns when the delete was
\* done or the error is storage/object-not-found, and throws any other error
\* again.
deleteFileFromFirebaseReturned(s) ==
    /\ remove[s].phase = "answered"
    /\ remove' = [remove EXCEPT ![s] = NoRemove]
    /\ rejection' = IF remove[s].code \in {"ok", "storage/object-not-found"}
                    THEN NoRejection ELSE StorageFailed(s)
    /\ toast' = NoToast
    /\ returned' = NoReturn
    /\ UNCHANGED <<userVars, pageVars, generationsDb, generations, genLoading, genError,
                   genAdd, genFetch, genFetchEarlier, clock, objects, upload, paymentsDb, payAdd>>

\* ------------------------------------------------------------- pages
\* A prompt is a string of blanks and letters.
Prompts == {<<>>, <<" ">>, <<"a">>, <<" ", "a", " ">>}

RECURSIVE TrimStart(_)
TrimStart(str) ==
    IF str # <<>> /\ Head(str) = " " THEN TrimStart(Tail(str)) ELSE str

RECURSIVE TrimEnd(_)
TrimEnd(str) ==
    IF str # <<>> /\ str[Len(str)] = " "
    THEN TrimEnd(SubSeq(str, 1, Len(str) - 1)) ELSE str

\* String.prototype.trim
Trim(str) == TrimEnd(TrimStart(str))

\* A test that takes only the empty string for blank (a plausible slip).
IsBlank_EmptyOnly(prompt) == prompt = <<>>

\* !prompt.trim()
IsBlank(prompt) == Trim(prompt) = <<>>

\* What the generation endpoint answers: the call throws, or it returns a
\* response that is not ok, or an ok response with count results (none when
\* the list is missing or empty).
Responses ==
    [status : {"network error", "not ok"}, count : {0}]
        \cup [status : {"ok"}, count : 0 .. MaxReturned]

\* A success test that looks at the status alone (a plausible slip).
Succeeded_OkOnly(resp) == resp.status = "ok"

\* The success test of the three handlers: response.ok and a result present.
Succeeded(resp) == resp.status = "ok" /\ resp.count > 0

\* A check that forgets the balance (a plausible slip).
checkCreditsAndProceed_ProfileOnly(profile, cost) ==
    IF profile = Null THEN "not loaded" ELSE "proceed"

\* checkCreditsAndProceed(cost) on the profile the page rendered.
checkCreditsAndProceed(profile, cost) ==
    IF profile = Null THEN "not loaded"
    ELSE IF profile.credits < cost THEN "insufficient"
    ELSE "proceed"

\* The checks of handleTextToImageSubmit, in the order of the code.
TextToImageGate(profile, numImages, prompt) ==
    IF profile = Null THEN "relogin"
    ELSE IF checkCreditsAndProceed(profile, IMAGE_GENERATION_COST * numImages) # "proceed"
    THEN checkCreditsAndProceed(profile, IMAGE_GENERATION_COST * numImages)
    ELSE IF IsBlank(prompt) THEN "enter prompt"
    ELSE "proceed"

\* The checks of handleImageToImageSubmit, in the order of the code.
ImageToImageGate(profile, uploadedImageFile, prompt) ==
    IF ~uploadedImageFile THEN "upload image"
    ELSE IF IsBlank(prompt) THEN "enter prompt"
    ELSE IF profile = Null THEN "relogin"
    ELSE checkCreditsAndProceed(profile, IMAGE_EDIT_COST)

\* The checks of handleGenerateVideo, in the order of the code.
VideoGate(profile, prompt) ==
    IF IsBlank(prompt) THEN "enter prompt"
    ELSE IF profile = Null THEN "not loaded"
    ELSE IF profile.credits < VIDEO_GENERATION_COST THEN "insufficient"
    ELSE "proceed"

\* A charge by the number of images returned (what the edit handler does).
TextToImageCharge_ByReturned(req, resp) == IMAGE_GENERATION_COST * resp.count

\* The credits handleTextToImageSubmit passes to decrementCredits on success.
TextToImageCharge(req, resp) == req.totalCost

\* A charge of the fixed edit cost (what the pre-check estimates).
ImageToImageCharge_Fixed(req, resp) == IMAGE_EDIT_COST

\* The credits handleImageToImageSubmit passes on success.
ImageToImageCharge(req, resp) == IMAGE_EDIT_COST * resp.count

\* The credits handleGenerateVideo passes on success.
VideoCharge(req, resp) == VIDEO_GENERATION_COST

\* A handler up to its await: the gate rejects with a toast, or the loading
\* flag is set and the request is sent with what the closure holds.
Submit(s, kind, gate, totalCost) ==
    /\ ~pageLoading[s]
    /\ IF gate = "proceed"
       THEN /\ pageLoading' = [pageLoading EXCEPT ![s] = TRUE]
            /\ request' = [request EXCEPT ![s] =
                             [phase |-> "sent", kind |-> kind,
                              userId |-> userProfile[s].id, totalCost |-> totalCost]]
            /\ toast' = NoToast
       ELSE /\ toast' = Show(s, gate)
            /\ UNCHANGED <<pageLoading, request>>
    /\ rejection' = NoRejection
    /\ returned' = NoReturn
    /\ UNCHANGED <<userVars, genVars>>

handleTextToImageSubmit(s, numImages, prompt) ==
    /\ request[s] = NoRequest
    /\ Submit(s, "text-to-image", TextToImageGate(userProfile[s], numImages, prompt),
              IMAGE_GENERATION_COST * numImages)

handleImageToImageSubmit(s, uploadedImageFile, prompt) ==
    /\ request[s] = NoRequest
    /\ Submit(s, "image-to-image",
              ImageToImageGate(userProfile[s], uploadedImageFile, prompt),
              IMAGE_EDIT_COST)

handleGenerateVideo(s, prompt) ==
    /\ request[s] = NoRequest
    /\ Submit(s, "video", VideoGate(userProfile[s], prompt), VIDEO_GENERATION_COST)

\* A handler that sends its request again when the call failed.
Failure_Retry(s) ==
    /\ toast' = Show(s, "error")
    /\ rejection' = NoRejection
    /\ returned' = NoReturn
    /\ UNCHANGED <<userVars, genVars, pageLoading, request>>

\* A handler with no finally block: the flag stays set after a failure.
Failure_NoFinally(s) ==
    /\ toast' = Show(s, "error")
    /\ rejection' = NoRejection
    /\ returned' = NoReturn
    /\ request' = [request EXCEPT ![s] = NoRequest]
    /\ UNCHANGED <<userVars, genVars, pageLoading>>

\* The catch and finally blocks of a handler whose try block threw.
Failure(s) ==
    /\ toast' = Show(s, "error")
    /\ rejection' = NoRejection
    /\ returned' = NoReturn
    /\ pageLoading' = [pageLoading EXCEPT ![s] = FALSE]
    /\ request' = [request EXCEPT ![s] = NoRequest]
    /\ UNCHANGED <<userVars, genVars>>

\* The success path of the image handlers: decrementCredits and addGeneration
\* are called, neither awaited, then the toast and the finally block.  (Explored
\* while the previous addGeneration has returned and fewer than MaxRecords
\* records were created.)
ChargeAndRecord(s, amount, message) ==
    /\ genAdd[s] = NoAdd
    /\ clock < MaxRecords
    /\ decrementCreditsCall(s, amount)
    /\ addGenerationCall(s, GenerationData(request[s].userId, request[s].kind, amount))
    /\ toast' = Show(s, message)
    /\ returned' = NoReturn
    /\ pageLoading' = [pageLoading EXCEPT ![s] = FALSE]
    /\ request' = [request EXCEPT ![s] = NoRequest]

\* handleTextToImageSubmit after brain.generate_image answered.
handleTextToImageResponse(s, resp) ==
    /\ request[s].phase = "sent"
    /\ request[s].kind = "text-to-image"
    /\ IF Succeeded(resp)
       THEN ChargeAndRecord(s, TextToImageCharge(request[s], resp), "generated")
       ELSE Failure(s)

\* handleImageToImageSubmit after brain.edit_image_with_prompt answered.
handleImageToImageResponse(s, resp) ==
    /\ request[s].phase = "sent"
    /\ request[s].kind = "image-to-image"
    /\ IF Succeeded(resp)
       THEN ChargeAndRecord(s, ImageToImageCharge(request[s], resp), "edited")
       ELSE Failure(s)

\* handleGenerateVideo after brain.generate_video answered: on success
\* decrementCredits is called, not awaited; no record is added.
handleGenerateVideoResponse(s, resp) ==
    /\ request[s].phase = "sent"
    /\ request[s].kind = "video"
    /\ IF Succeeded(resp)
       THEN /\ decrementCreditsCall(s, VideoCharge(request[s], resp))
            /\ toast' = Show(s, "video generated")
            /\ returned' = NoReturn
            /\ pageLoading' = [pageLoading EXCEPT ![s] = FALSE]
            /\ request' = [request EXCEPT ![s] = NoRequest]
            /\ UNCHANGED genVars
       ELSE Failure(s)

\* ------------------------------------------------------- specification
\* The stores start empty (create(...) initial state); the users collection
\* is whatever earlier sessions left in Firestore; each session is signed in.
Init ==
    /\ uid \in [Sessions -> Owners]
    /\ uid["s1"] = "u1"
    /\ users \in [Owners -> {NoDoc} \cup {Doc(c) : c \in 0 .. MaxCredits}]
    /\ userProfile = [s \in Sessions |-> Null]
    /\ userLoading = [s \in Sessions |-> FALSE]
    /\ userError = [s \in Sessions |-> FALSE]
    /\ fetch = [s \in Sessions |-> NoFetch]
    /\ deduct = [s \in Sessions |-> NoDeduct]
    /\ initialize = [s \in Sessions |-> NoInitialize]
    /\ update = [s \in Sessions |-> NoUpdate]
    /\ rejection = NoRejection
    /\ pageLoading = [s \in Sessions |-> FALSE]
    /\ request = [s \in Sessions |-> NoRequest]
    /\ toast = NoToast
    /\ returned = NoReturn
    /\ generationsDb = <<>>
    /\ generations = [s \in Sessions |-> <<>>]
    /\ genLoading = [s \in Sessions |-> FALSE]
    /\ genError = [s \in Sessions |-> FALSE]
    /\ genAdd = [s \in Sessions |-> NoAdd]
    /\ genFetch = [s \in Sessions |-> NoGenFetch]
    /\ genFetchEarlier = [s \in Sessions |-> NoGenFetch]
    /\ clock = 0
    /\ objects = {}
    /\ remove = [s \in Sessions |-> NoRemove]
    /\ upload = [s \in Sessions |-> NoUpload]
    /\ paymentsDb = <<>>
    /\ payAdd = [s \in Sessions |-> NoPayment]

\* The operations of the user store in session s, decrementCredits called
\* with the amounts of A.
UserStoreStep(s, A) ==
    \/ fetchUserProfile(s)
    \/ getUserProfileServed(s)
    \/ fetchUserProfileResolved(s)
    \/ fetchUserProfileFailed(s)
    \/ \E a \in A : decrementCredits(s, a)
    \/ decrementCreditsResolved(s)
    \/ decrementCreditsFailed(s)

\* One browser session using the user store.
Next == UserStoreStep("s1", Amounts)

Spec == Init /\ [][Next]_vars

\* One session, the only writer of its owner's document, calling
\* fetchUserProfile and decrementCredits with positive amounts in any order.
InitSession ==
    /\ Init
    /\ \A s \in Sessions : uid[s] = "u1"
    /\ users["u2"] = NoDoc

NextSession == UserStoreStep("s1", 1 .. MaxAmount)

SpecSession == InitSession /\ [][NextSession]_vars

\* DashboardPage, on an auth state change with a signed-in user: the profile is
\* fetched when the store holds none, or one of another user.
DashboardPage(s) ==
    /\ userProfile[s] = Null \/ userProfile[s].id # uid[s]
    /\ fetchUserProfile(s)

\* A tab of the application: its dashboard loads the profile, its pages spend
\* credits.
TabStep(s) ==
    \/ DashboardPage(s)
    \/ getUserProfileServed(s)
    \/ fetchUserProfileResolved(s)
    \/ fetchUserProfileFailed(s)
    \/ \E a \in 1 .. MaxAmount : decrementCredits(s, a)
    \/ decrementCreditsResolved(s)
    \/ decrementCreditsFailed(s)

\* Two sessions (two tabs) of the same signed-in user, spending credits.
InitTabs ==
    /\ Init
    /\ \A s \in Sessions : uid[s] = "u1"
    /\ users["u2"] = NoDoc

NextTabs == \E s \in Sessions : TabStep(s)

SpecTabs == InitTabs /\ [][NextTabs]_vars

\* A caller of updateUserProfile, explored with a profile loaded (the merge
\* spreads the profile the store holds).
ProfileForm(s, owners, updates) ==
    /\ userProfile[s] # Null
    /\ \E o \in owners, data \in updates : updateUserProfile(s, o, data)

\* The steps of the calls initializeNewUserProfile and updateUserProfile in
\* flight in session s.
ProfileWriteStep(s) ==
    \/ createUserProfileWritten(s)
    \/ initializeGetUserProfileServed(s)
    \/ initializeNewUserProfileResolved(s)
    \/ initializeNewUserProfileFailed(s)
    \/ updateUserProfileWritten(s)
    \/ updateUserProfileResolved(s)
    \/ updateUserProfileFailed(s)

\* One session in which the profile of the signed-in user is initialized,
\* while the dashboard fetches it and its name is edited.
InitSignup ==
    /\ Init
    /\ \A s \in Sessions : uid[s] = "u1"
    /\ users["u1"] \in {NoDoc, Doc(MaxCredits)}
    /\ users["u2"] = NoDoc

NextSignup ==
    \/ DashboardPage("s1")
    \/ getUserProfileServed("s1")
    \/ fetchUserProfileResolved("s1")
    \/ fetchUserProfileFailed("s1")
    \/ \E data \in SignupData : initializeNewUserProfile("s1", uid["s1"], data)
    \/ ProfileForm("s1", {uid["s1"]}, {[NoData EXCEPT !.has = {"name"}, !.name = "bob"]})
    \/ ProfileWriteStep("s1")

SpecSignup == InitSignup /\ [][NextSignup]_vars

\* One session in which the loaded profile is updated, for the signed-in user
\* or for another owner, and granted credits.
InitProfile ==
    /\ Init
    /\ \A s \in Sessions : uid[s] = "u1"
    /\ users["u1"] = Doc(MaxCredits)
    /\ users["u2"] \in {NoDoc, Doc(0)}

NextProfile ==
    \/ DashboardPage("s1")
    \/ getUserProfileServed("s1")
    \/ fetchUserProfileResolved("s1")
    \/ fetchUserProfileFailed("s1")
    \/ ProfileForm("s1", Owners, ProfileUpdates)
    \/ updateUserProfileWritten("s1")
    \/ updateUserProfileResolved("s1")
    \/ updateUserProfileFailed("s1")
    \/ \E a \in Amounts : incrementCredits("s1", a)

SpecProfile == InitProfile /\ [][NextProfile]_vars

\* The partial profiles of a settings form: none of them carries credits.
FormUpdates ==
    {[NoData EXCEPT !.has = {"name"}, !.name = "bob"],
     [NoData EXCEPT !.has = {"subscriptionStatus"},
                    !.subscriptionStatus = "premium_monthly"]}

\* One session in which the profile of the signed-in user is edited while
\* the pages spend credits.
InitEdit ==
    /\ Init
    /\ \A s \in Sessions : uid[s] = "u1"
    /\ users["u1"] \in {Doc(c) : c \in 1 .. MaxCredits}
    /\ users["u2"] = NoDoc

NextEdit ==
    \/ DashboardPage("s1")
    \/ getUserProfileServed("s1")
    \/ fetchUserProfileResolved("s1")
    \/ fetchUserProfileFailed("s1")
    \/ ProfileForm("s1", {uid["s1"]}, FormUpdates)
    \/ updateUserProfileWritten("s1")
    \/ updateUserProfileResolved("s1")
    \/ updateUserProfileFailed("s1")
    \/ \E a \in 1 .. MaxAmount : decrementCredits("s1", a)
    \/ decrementCreditsResolved("s1")
    \/ decrementCreditsFailed("s1")

SpecEdit == InitEdit /\ [][NextEdit]_vars

\* The paths a caller may pass to deleteFileFromFirebase: empty, or the path
\* of an upload, whether it holds an object now or not.
DeletePaths ==
    {EmptyString} \cup
    {StoragePath("u1", contentType, timestamp, name) :
        contentType \in ContentTypes, timestamp \in Timestamps, name \in FileNames}

\* A caller of deleteFileFromFirebase, one call at a time.
DeleteRequest(s) ==
    /\ remove[s] = NoRemove
    /\ \E storagePath \in DeletePaths : deleteFileFromFirebase(s, storagePath)

\* One session uploading files to Firebase Storage and deleting them.
NextStorage ==
    \/ \E userId \in UploadUserIds, file \in Files, contentType \in ContentTypes,
          timestamp \in Timestamps :
          uploadFileToFirebase("s1", userId, file, contentType, timestamp)
    \/ uploadStored("s1")
    \/ uploadResolved("s1")
    \/ uploadFailed("s1")
    \/ DeleteRequest("s1")
    \/ fileRefDelete("s1")
    \/ fileRefDeleteFailed("s1")
    \/ deleteFileFromFirebaseReturned("s1")

\* Storage starts empty; no profile takes part.
InitStorage ==
    /\ Init
    /\ \A s \in Sessions : uid[s] = "u1"
    /\ users = [o \in Owners |-> NoDoc]

SpecStorage == InitStorage /\ [][NextStorage]_vars

\* The data a caller may pass to addGeneration: any owner, the status left out
\* or given.
GenerationInputs ==
    {[GenerationData(o, "text-to-image", IMAGE_GENERATION_COST) EXCEPT !.status = st] :
        o \in Owners, st \in {"unset", "failed"}}

\* The operations of the generations store in session s.
GenerationsStoreStep(s) ==
    \/ addGenerationWritten(s)
    \/ addGenerationFailed(s)
    \/ getUserGenerationsServed(s)
    \/ fetchUserGenerationsResolved(s)
    \/ fetchUserGenerationsFailed(s)

\* One session using the generations store alone.
InitGen ==
    /\ Init
    /\ \A s \in Sessions : uid[s] = "u1"
    /\ users = [o \in Owners |-> NoDoc]

NextGen ==
    \/ \E data \in GenerationInputs : addGeneration("s1", data)
    \/ \E o \in Owners : fetchUserGenerations("s1", o)
    \/ GenerationsStoreStep("s1")

SpecGen == InitGen /\ [][NextGen]_vars

\* One session using the generations store, its fetches overlapping.
NextHistory ==
    \/ NextGen
    \/ \E o \in Owners : fetchUserGenerationsAgain("s1", o)
    \/ earlierGetUserGenerationsServed("s1")
    \/ earlierFetchUserGenerationsResolved("s1")
    \/ earlierFetchUserGenerationsFailed("s1")

SpecHistory == InitGen /\ [][NextHistory]_vars

\* One session using the generations store and adding payment records.
NextRecords ==
    \/ NextGen
    \/ \E o \in Owners, paymentData \in PaymentInputs : addPaymentRecord("s1", o, paymentData)
    \/ addPaymentRecordWritten("s1")
    \/ addPaymentRecordFailed("s1")

SpecRecords == InitGen /\ [][NextRecords]_vars

\* The generation pages of session s.
PageStep(s) ==
    \/ \E n \in 1 .. MaxNumImages, prompt \in Prompts :
          handleTextToImageSubmit(s, n, prompt)
    \/ \E file \in BOOLEAN, prompt \in Prompts :
          handleImageToImageSubmit(s, file, prompt)
    \/ \E prompt \in Prompts : handleGenerateVideo(s, prompt)
    \/ \E resp \in Responses : handleTextToImageResponse(s, resp)
    \/ \E resp \in Responses : handleImageToImageResponse(s, resp)
    \/ \E resp \in Responses : handleGenerateVideoResponse(s, resp)

\* One session on the generation pages: the profile is fetched, generations
\* are requested, credits are charged and records are added.
InitPage ==
    /\ Init
    /\ \A s \in Sessions : uid[s] = "u1"
    /\ users["u2"] = NoDoc

NextPage ==
    \/ DashboardPage("s1")
    \/ getUserProfileServed("s1")
    \/ fetchUserProfileResolved("s1")
    \/ fetchUserProfileFailed("s1")
    \/ decrementCreditsResolved("s1")
    \/ decrementCreditsFailed("s1")
    \/ PageStep("s1")
    \/ GenerationsStoreStep("s1")

SpecPage == InitPage /\ [][NextPage]_vars

\* The generation pages, with the generations of the loaded profile also
\* fetched on their own (a history view).
HistoryView(s) ==
    /\ userProfile[s] # Null
    /\ fetchUserGenerations(s, userProfile[s].id)

NextLedger ==
    \/ NextPage
    \/ HistoryView("s1")

SpecLedger == InitPage /\ [][NextLedger]_vars

\* ---------------------------------------------------------- properties
\* C1: a call decrementCredits(amount) made with no profile loaded, or with a
\* local balance below amount, fails with the insufficient-credits error,
\* leaves the local profile unchanged and issues no write to the store.
C1_RejectedDecrement ==
    [][\A a \in Amounts :
         (/\ decrementCredits("s1", a)
          /\ (userProfile["s1"] = Null \/ userProfile["s1"].credits < a))
         => /\ rejection' = Insufficient("s1")
            /\ userProfile' = userProfile
            /\ deduct' = deduct
            /\ users' = users]_vars

\* A call was rejected for a loaded profile whose balance is too low.
C1_Witness ==
    /\ rejection = Insufficient("s1")
    /\ userProfile["s1"] # Null
    /\ deduct["s1"] = NoDeduct

C3_RevertRestoresPreCall ==
    [][decrementCreditsFailed("s1")
         => /\ userProfile'["s1"] = deduct["s1"].currentProfile
            /\ rejection' = WriteFailed("s1")]_vars

\* C10: two sessions caching the same owner's balance each pass the
\* precondition on their own cached balance, whatever the store holds and
\* whatever write is in flight, and every write that lands takes its amount
\* from the stored balance unconditionally, so that the stored balance ends
\* below zero.
C10_CachedCheckUnconditionalWrite ==
    [][\A s \in Sessions :
         /\ \A a \in 1 .. MaxAmount :
               (/\ decrementCredits(s, a)
                /\ userProfile[s] # Null
                /\ userProfile[s].credits >= a)
               => /\ deduct'[s] = [phase |-> "sent",
                                   currentProfile |-> userProfile[s], amount |-> a]
                  /\ userProfile'[s].credits = userProfile[s].credits - a
         /\ decrementCreditsResolved(s)
               => users'[deduct[s].currentProfile.id].credits =
                     users[deduct[s].currentProfile.id].credits - deduct[s].amount]_vars

\* Both sessions cached balance b, each spent amount with amount <= b and
\* b < 2 * amount, both writes landed: the store holds b - 2 * amount < 0.
C10_Witness ==
    \E a \in 1 .. MaxAmount, b \in 0 .. MaxCredits :
        /\ a <= b /\ b < 2 * a
        /\ users["u1"] = Doc(b - 2 * a)
        /\ \A s \in Sessions :
              /\ userProfile[s] = Profile("u1", b - a)
              /\ deduct[s] = NoDeduct

\* C4: a generation handler called with no profile loaded, or with a local
\* balance below its cost (1 x the images asked for text-to-image, 1 for an
\* edit, 5 for a video), rejects with a notice: no request is sent, the
\* loading flag stays clear, the balance and the store are unchanged and no
\* record is written.  (3 credits and a batch of 4 is one such case.)
C4_GateRejects ==
    [][\A p \in Prompts :
         LET short(cost) == \/ userProfile["s1"] = Null
                            \/ userProfile["s1"].credits < cost
             rejected == /\ toast'["s1"] # "none"
                         /\ request' = request
                         /\ pageLoading' = pageLoading
                         /\ userProfile' = userProfile
                         /\ users' = users
                         /\ deduct' = deduct
                         /\ genAdd' = genAdd
                         /\ generationsDb' = generationsDb
         IN /\ \A n \in 1 .. MaxNumImages :
                 (handleTextToImageSubmit("s1", n, p)
                    /\ short(IMAGE_GENERATION_COST * n)) => rejected
            /\ \A f \in BOOLEAN :
                 (handleImageToImageSubmit("s1", f, p) /\ short(IMAGE_EDIT_COST))
                    => rejected
            /\ (handleGenerateVideo("s1", p) /\ short(VIDEO_GENERATION_COST))
                    => rejected]_vars

\* A submit was rejected for lack of credits with 3 credits loaded (a batch of
\* 4 images, or a video): the balance is still 3 and nothing is in flight.
C4_Witness ==
    /\ toast["s1"] = "insufficient"
    /\ userProfile["s1"] = Profile("u1", 3)
    /\ request["s1"] = NoRequest
    /\ deduct["s1"] = NoDeduct
    /\ generationsDb = <<>>

\* C5: when the endpoint call of a handler throws, or answers not ok, or
\* answers ok with no result, the handler shows the error, calls neither
\* decrementCredits nor addGeneration, and leaves the balance, the store and
\* the records as they are.
C5_FailureChargesNothing ==
    [][\A resp \in Responses :
         (/\ \/ handleTextToImageResponse("s1", resp)
             \/ handleImageToImageResponse("s1", resp)
             \/ handleGenerateVideoResponse("s1", resp)
          /\ ~(resp.status = "ok" /\ resp.count > 0))
         => /\ toast'["s1"] = "error"
            /\ rejection' = NoRejection
            /\ userProfile' = userProfile
            /\ users' = users
            /\ deduct' = deduct
            /\ genAdd' = genAdd
            /\ generationsDb' = generationsDb
            /\ clock' = clock]_vars

\* A request failed with a profile loaded: nothing was charged or recorded.
C5_Witness ==
    /\ toast["s1"] = "error"
    /\ userProfile["s1"] # Null
    /\ deduct["s1"] = NoDeduct
    /\ clock = 0

\* C6 as stated: with a balance of 5, an image handler that asked for one
\* image and receives an ok response with 2 images leaves the balance at 3
\* and creates a record of cost 2.
C6_AnyImageActionBillsReturned ==
    [][\A resp \in Responses :
         (/\ \/ handleTextToImageResponse("s1", resp)
             \/ handleImageToImageResponse("s1", resp)
          /\ resp.status = "ok" /\ resp.count = 2
          /\ request["s1"].totalCost = 1
          /\ userProfile["s1"] = Profile("u1", 5))
         => /\ userProfile'["s1"] = Profile("u1", 3)
            /\ genAdd'["s1"].record.cost = 2]_vars

\* C6, amended: with a balance of 5 and an ok response holding 2 images, the
\* image-edit handler leaves the balance at 3, issues the write of 2 and adds
\* a record of cost 2; the text-to-image handler that asked for one image
\* leaves the balance at 4, issues the write of 1 and adds a record of cost 1.
C6_EditBillsReturned ==
    [][\A resp \in Responses :
         (/\ resp.status = "ok" /\ resp.count = 2
          /\ request["s1"].totalCost = 1
          /\ userProfile["s1"] = Profile("u1", 5))
         => /\ handleImageToImageResponse("s1", resp)
               => /\ userProfile'["s1"] = Profile("u1", 3)
                  /\ deduct'["s1"].phase = "sent" /\ deduct'["s1"].amount = 2
                  /\ genAdd'["s1"].phase = "sent"
                  /\ genAdd'["s1"].record.cost = 2
                  /\ genAdd'["s1"].record.type = "image-to-image"
            /\ handleTextToImageResponse("s1", resp)
               => /\ userProfile'["s1"] = Profile("u1", 4)
                  /\ deduct'["s1"].phase = "sent" /\ deduct'["s1"].amount = 1
                  /\ genAdd'["s1"].phase = "sent"
                  /\ genAdd'["s1"].record.cost = 1
                  /\ genAdd'["s1"].record.type = "text-to-image"]_vars

\* An edit just succeeded from a balance of 5 with 2 images returned.
C6_Witness ==
    /\ toast["s1"] = "edited"
    /\ userProfile["s1"] = Profile("u1", 3)
    /\ deduct["s1"].phase = "sent" /\ deduct["s1"].amount = 2
    /\ deduct["s1"].currentProfile = Profile("u1", 5)
    /\ genAdd["s1"].phase = "sent" /\ genAdd["s1"].record.cost = 2

\* C7 as stated: when an image edit succeeds with k >= 1 images, k credits are
\* taken from the balance (the write of k is issued) and the record is given
\* the cost k.
C7_EditChargesReturned ==
    [][\A resp \in Responses :
         (handleImageToImageResponse("s1", resp)
            /\ resp.status = "ok" /\ resp.count >= 1)
         => /\ userProfile'["s1"].credits =
                  userProfile["s1"].credits - IMAGE_EDIT_COST * resp.count
            /\ deduct'["s1"].phase = "sent"
            /\ deduct'["s1"].amount = IMAGE_EDIT_COST * resp.count
            /\ genAdd'["s1"].record.cost = IMAGE_EDIT_COST * resp.count]_vars

C9_SuccessChargesAndRecords ==
    [][\A resp \in Responses :
         (/\ \/ handleTextToImageResponse("s1", resp)
             \/ handleImageToImageResponse("s1", resp)
             \/ handleGenerateVideoResponse("s1", resp)
          /\ resp.status = "ok" /\ resp.count >= 1)
         => /\ userProfile'["s1"].credits < userProfile["s1"].credits
            /\ deduct'["s1"].phase = "sent"
            /\ genAdd'["s1"].phase = "sent"
            /\ clock' = clock + 1]_vars

\* C11: whatever the interleaving of the sessions' decrement writes for one
\* owner, the stored balance changes only when a write lands, then by exactly
\* the amount of that write, and the write leaves flight in that same step
\* while every other write stays in flight; a write in flight ends only by
\* landing or by failing.  So once all writes have landed the stored balance
\* is the initial one minus the sum of the written amounts: none is lost,
\* none is applied twice.
C11_WritesSumUp ==
    [][/\ \A o \in Owners :
            users'[o] # users[o]
            => \E s \in Sessions :
                  /\ deduct[s].phase = "sent"
                  /\ deduct[s].currentProfile.id = o
                  /\ users'[o] = [users[o] EXCEPT !.credits = @ - deduct[s].amount]
                  /\ deduct'[s] = NoDeduct
                  /\ \A t \in Sessions \ {s} : deduct'[t] = deduct[t]
       /\ \A s \in Sessions :
            (deduct[s].phase = "sent" /\ deduct'[s] # deduct[s])
            => \/ /\ decrementCreditsResolved(s)
                  /\ users'[deduct[s].currentProfile.id].credits =
                        users[deduct[s].currentProfile.id].credits - deduct[s].amount
               \/ /\ decrementCreditsFailed(s)
                  /\ users' = users]_vars

\* The write of session s has landed while the write of session t for the
\* same owner is still in flight: the store holds the balance s computed,
\* below the snapshot t took when it issued its write.
C11_Witness ==
    \E s \in Sessions, t \in Sessions :
        /\ s # t
        /\ deduct[s] = NoDeduct
        /\ deduct[t].phase = "sent"
        /\ userProfile[s] # Null /\ userProfile[s].id = deduct[t].currentProfile.id
        /\ users[userProfile[s].id].credits = userProfile[s].credits
        /\ users[userProfile[s].id].credits < deduct[t].currentProfile.credits

\* C12: when the write of addGeneration lands, the record enters the store
\* with its generated id and its two timestamps, nothing is appended to the
\* local collection, and a fetch for the record's owner is started; when that
\* fetch succeeds the local collection is its result, which holds the record
\* with that id and those timestamps, and addGeneration returns the id.
C12_AddThenRefetch ==
    [][/\ addGenerationWritten("s1")
            => /\ generationsDb' = Append(generationsDb, genAdd["s1"].record)
               /\ genAdd["s1"].record.id > 0
               /\ genAdd["s1"].record.createdAt > 0
               /\ genAdd["s1"].record.updatedAt > 0
               /\ generations' = generations
               /\ returned' = NoReturn
               /\ genFetch'["s1"].phase = "sent"
               /\ genFetch'["s1"].userId = genAdd["s1"].record.userId
               /\ genFetch'["s1"].newRecordId = genAdd["s1"].record.id
       /\ (fetchUserGenerationsResolved("s1") /\ genFetch["s1"].newRecordId # 0)
            => /\ returned' = [sid |-> "s1", defined |-> TRUE,
                               id |-> genFetch["s1"].newRecordId]
               /\ \E i \in DOMAIN generations'["s1"] :
                     LET rec == generations'["s1"][i] IN
                     /\ rec.id = genFetch["s1"].newRecordId
                     /\ rec.userId = genFetch["s1"].userId
                     /\ rec.createdAt > 0 /\ rec.updatedAt > 0
                     /\ \E j \in DOMAIN generationsDb : generationsDb[j] = rec]_vars

\* addGeneration has just returned the id of its record after the re-fetch,
\* and the local collection holds that record next to an older one.
C12_Witness ==
    /\ returned.sid = "s1" /\ returned.defined
    /\ Len(generations["s1"]) >= 2
    /\ \E i \in DOMAIN generations["s1"] : generations["s1"][i].id = returned.id

\* C13: when fetchUserGenerations(ownerId) succeeds, the local collection is
\* exactly the store's records of that owner, each once, whatever it held
\* before, in non-increasing order of creation time.
C13_FetchReplaces ==
    [][fetchUserGenerationsResolved("s1")
         => LET g == generations'["s1"]
                o == genFetch["s1"].userId
            IN /\ \A i \in DOMAIN g :
                     /\ g[i].userId = o
                     /\ \E j \in DOMAIN generationsDb : generationsDb[j] = g[i]
               /\ \A j \in DOMAIN generationsDb :
                     generationsDb[j].userId = o
                        => \E i \in DOMAIN g : g[i] = generationsDb[j]
               /\ \A i \in DOMAIN g, k \in DOMAIN g :
                     /\ (i # k => g[i] # g[k])
                     /\ (i < k => g[i].createdAt >= g[k].createdAt)]_vars

\* The local collection holds the two records of one owner, newest first,
\* out of a store of three in which another owner's record lies between.
C13_Witness ==
    /\ Len(generationsDb) = 3
    /\ generationsDb[1].userId = "u1"
    /\ generationsDb[2].userId = "u2"
    /\ generationsDb[3].userId = "u1"
    /\ generations["s1"] = <<generationsDb[3], generationsDb[1]>>
    /\ genFetch["s1"] = NoGenFetch

\* C14: when the query of fetchUserGenerations fails, or the write of
\* addGeneration fails, the error is set, the loading flag is cleared, the
\* local collection and the stored records stay as they are and nothing is
\* raised; addGeneration then returns undefined; the credits the page took
\* for that generation stay taken (the profile, the stored balance and the
\* write in flight are untouched).
C14_LedgerFailure ==
    [][/\ (fetchUserGenerationsFailed("s1") \/ addGenerationFailed("s1"))
            => /\ genError'["s1"]
               /\ ~genLoading'["s1"]
               /\ generations' = generations
               /\ generationsDb' = generationsDb
               /\ rejection' = NoRejection
               /\ userProfile' = userProfile
               /\ users' = users
               /\ deduct' = deduct
       /\ addGenerationFailed("s1")
            => returned' = [sid |-> "s1", defined |-> FALSE, id |-> 0]]_vars

\* The write of a record has just failed after its credits were taken: the
\* optimistic balance stands and the decrement write is still in flight.
C14_Witness ==
    /\ returned = [sid |-> "s1", defined |-> FALSE, id |-> 0]
    /\ genError["s1"] /\ ~genLoading["s1"]
    /\ generationsDb = <<>>
    /\ deduct["s1"].phase = "sent"
    /\ userProfile["s1"].credits =
          deduct["s1"].currentProfile.credits - deduct["s1"].amount

\* C15: fetchUserProfile(ownerId) sets the loading flag and clears the error
\* before its read, and the flag stays set while the read is in flight; a
\* read of an owner without document yields null, and the call then ends
\* with profile null, no error, loading clear and nothing raised; a read
\* that fails sets the error, clears loading, raises nothing and leaves the
\* loaded profile as it was.
C15_FetchUserProfile ==
    [][/\ fetchUserProfile("s1")
            => /\ userLoading'["s1"] /\ ~userError'["s1"]
               /\ fetch'["s1"].phase = "sent" /\ fetch'["s1"].userId = uid["s1"]
               /\ userProfile' = userProfile
       /\ fetch'["s1"].phase # "idle" => userLoading'["s1"]
       /\ (getUserProfileServed("s1") /\ ~users[fetch["s1"].userId].exists)
            => fetch'["s1"].result = Null
       /\ fetchUserProfileResolved("s1")
            => /\ userProfile'["s1"] = fetch["s1"].result
               /\ ~userLoading'["s1"]
               /\ ~userError'["s1"]
               /\ rejection' = NoRejection
       /\ fetchUserProfileFailed("s1")
            => /\ userError'["s1"]
               /\ ~userLoading'["s1"]
               /\ rejection' = NoRejection
               /\ userProfile' = userProfile]_vars

\* A later read failed with a profile loaded: the error is set, the loading
\* flag is clear and the profile is still there.
C15_Witness ==
    /\ userError["s1"] /\ ~userLoading["s1"]
    /\ fetch["s1"] = NoFetch
    /\ userProfile["s1"] # Null

\* C16: the create write of initializeNewUserProfile(ownerId, data) stores a
\* profile with 10 credits and the free tier for ownerId; the read that
\* follows it returns the document as the store holds it then; and when the
\* call succeeds the store still holds 10 credits and the free tier for
\* ownerId, and the local profile is what that read returned.
C16_InitializeNewUserProfile ==
    [][LET o == initialize["s1"].userId IN
       /\ (initialize["s1"].phase = "creating" /\ initialize'["s1"].phase = "reading")
            => /\ users'[o].exists
               /\ users'[o].credits = 10
               /\ users'[o].subscriptionStatus = "free"
               /\ users'[o].name = NameOrEmpty(initialize["s1"].data)
       /\ (initialize["s1"].phase = "reading" /\ initialize'["s1"].phase = "served")
            => initialize'["s1"].result =
                  [id |-> o, credits |-> users[o].credits, name |-> users[o].name,
                   subscriptionStatus |-> users[o].subscriptionStatus]
       /\ (initialize["s1"].phase = "served" /\ initialize'["s1"] = NoInitialize)
            => /\ users[o].credits = 10
               /\ users[o].subscriptionStatus = "free"
               /\ userProfile'["s1"] = initialize["s1"].result
               /\ userProfile'["s1"].id = o
               /\ rejection' = NoRejection
       /\ initialize'["s1"].phase = "served" => initialize["s1"].phase \in {"reading", "served"}]_vars

\* The profile was initialized with the name "ann" while an edit of the name
\* was in flight: the local profile carries the name read back from the store.
C16_Witness ==
    /\ initialize["s1"] = NoInitialize /\ fetch["s1"] = NoFetch
    /\ userProfile["s1"] = [id |-> "u1", credits |-> 10, name |-> "bob",
                            subscriptionStatus |-> "free"]
    /\ users["u1"].credits = 10
    /\ ~userLoading["s1"] /\ ~userError["s1"]

\* C17: updateUserProfile(ownerId, partial) takes the local profile when it
\* is called; when its write has succeeded it sets the local profile to that
\* profile with the fields of partial replaced and id = ownerId, and issues no
\* read of the store; when its write fails the local profile stays as it is,
\* the error field is set and the error is raised to the caller.
C17_UpdateUserProfile ==
    [][LET call == update["s1"] IN
       /\ (call = NoUpdate /\ update'["s1"].phase = "sent")
            => update'["s1"].currentProfile = userProfile["s1"]
       /\ (call.phase = "written" /\ update'["s1"] = NoUpdate)
            => /\ userProfile'["s1"] =
                    [id |-> call.userId,
                     credits |-> IF "credits" \in call.data.has
                                 THEN call.data.credits ELSE call.currentProfile.credits,
                     name |-> IF "name" \in call.data.has
                              THEN call.data.name ELSE call.currentProfile.name,
                     subscriptionStatus |->
                        IF "subscriptionStatus" \in call.data.has
                        THEN call.data.subscriptionStatus
                        ELSE call.currentProfile.subscriptionStatus]
               /\ fetch' = fetch /\ initialize' = initialize /\ users' = users
               /\ rejection' = NoRejection
       /\ (call.phase = "sent" /\ update'["s1"] = NoUpdate)
            => /\ userProfile' = userProfile
               /\ userError'["s1"]
               /\ rejection' = UpdateFailed("s1")
               /\ users' = users]_vars

\* An update of another owner's document has succeeded: the local profile
\* carries that owner's id and a balance the store does not hold for it.
C17_Witness ==
    /\ update["s1"] = NoUpdate /\ fetch["s1"] = NoFetch
    /\ userProfile["s1"].id = "u2"
    /\ userProfile["s1"].name = "bob"
    /\ users["u2"].name = "bob"
    /\ userProfile["s1"].credits # users["u2"].credits
    /\ ~userError["s1"]

\* C18: a call incrementCredits(amount) with a profile loaded adds amount to
\* the local balance and leaves the rest of the profile; with no profile
\* loaded it leaves the local state as it is; in both cases no write is issued
\* and the stored documents stay as they are.
C18_IncrementCreditsIsLocal ==
    [][(\E a \in Amounts : incrementCredits("s1", a))
         => /\ users' = users
            /\ deduct' = deduct /\ update' = update /\ initialize' = initialize
            /\ fetch' = fetch
            /\ userProfile["s1"] = Null => userProfile' = userProfile
            /\ userProfile["s1"] # Null =>
                 \E a \in Amounts :
                    userProfile'["s1"] =
                       [userProfile["s1"] EXCEPT !.credits = @ + a]]_vars

\* The loaded profile was granted credits: its balance is above the stored
\* one, with nothing in flight.
C18_Witness ==
    /\ userProfile["s1"] # Null
    /\ userProfile["s1"].id = "u1"
    /\ userProfile["s1"].credits = users["u1"].credits + MaxAmount
    /\ update["s1"] = NoUpdate /\ fetch["s1"] = NoFetch

\* C19: a submit of the video handler, of the text-to-image handler or of the
\* image-edit handler with a prompt that is empty or holds only spaces is
\* rejected with a message: no request is sent, the loading flag stays clear,
\* and the balance, the store and the records are unchanged.
C19_BlankPromptRejected ==
    [][\A p \in Prompts :
         ((\A i \in 1 .. Len(p) : p[i] = " ")
            /\ \/ handleGenerateVideo("s1", p)
               \/ \E n \in 1 .. MaxNumImages : handleTextToImageSubmit("s1", n, p)
               \/ \E file \in BOOLEAN : handleImageToImageSubmit("s1", file, p))
         => /\ toast'["s1"] # "none"
            /\ request' = request /\ request'["s1"] = NoRequest
            /\ ~pageLoading'["s1"] /\ ~pageLoading["s1"]
            /\ userProfile' = userProfile
            /\ users' = users
            /\ deduct' = deduct
            /\ genAdd' = genAdd
            /\ generationsDb' = generationsDb]_vars

\* A submit was rejected for its prompt with enough credits loaded for any
\* action: nothing is in flight and the balance is what the store holds.
C19_Witness ==
    /\ toast["s1"] = "enter prompt"
    /\ userProfile["s1"] # Null
    /\ userProfile["s1"].credits >= VIDEO_GENERATION_COST
    /\ userProfile["s1"].credits = users["u1"].credits
    /\ request["s1"] = NoRequest /\ ~pageLoading["s1"]
    /\ deduct["s1"] = NoDeduct

\* C20: the loading flag of the generation page is set exactly while its
\* endpoint call is in flight.  It is set only by a submit whose prompt is not
\* blank and whose profile is loaded with at least the cost the request was
\* sent with; and the step in which the endpoint call resolves or rejects
\* clears the flag and leaves no request behind, whatever the answer.
C20_LoadingLifecycle ==
    [][/\ pageLoading["s1"] <=> request["s1"].phase = "sent"
       /\ pageLoading'["s1"] <=> request'["s1"].phase = "sent"
       /\ (~pageLoading["s1"] /\ pageLoading'["s1"])
            => /\ userProfile["s1"] # Null
               /\ userProfile["s1"].credits >= request'["s1"].totalCost
               /\ request'["s1"].totalCost >= 1
               /\ \E p \in Prompts :
                     /\ \E i \in 1 .. Len(p) : p[i] # " "
                     /\ \/ handleGenerateVideo("s1", p)
                        \/ \E n \in 1 .. MaxNumImages : handleTextToImageSubmit("s1", n, p)
                        \/ handleImageToImageSubmit("s1", TRUE, p)
       /\ (request["s1"].phase = "sent" /\ request'["s1"] # request["s1"])
            => /\ ~pageLoading'["s1"]
               /\ request'["s1"] = NoRequest]_vars

\* A video request is in flight with the flag set, sent with 5 credits loaded.
C20_Witness ==
    /\ pageLoading["s1"]
    /\ request["s1"].phase = "sent"
    /\ request["s1"].kind = "video"
    /\ userProfile["s1"] = Profile("u1", VIDEO_GENERATION_COST)

\* C21: a request to a generation endpoint goes in flight only in a submit
\* step of a handler, when none is in flight, and it is the one request of that
\* submit; the step that handles the answer of the endpoint, failure included,
\* leaves no request in flight; and no other step touches the request.  So
\* every submit sends at most one request and nothing is sent again.
C21_OneRequestPerSubmit ==
    [][LET submit == \E p \in Prompts :
                        \/ handleGenerateVideo("s1", p)
                        \/ \E n \in 1 .. MaxNumImages : handleTextToImageSubmit("s1", n, p)
                        \/ \E file \in BOOLEAN : handleImageToImageSubmit("s1", file, p)
           answer == \E resp \in Responses :
                        \/ handleTextToImageResponse("s1", resp)
                        \/ handleImageToImageResponse("s1", resp)
                        \/ handleGenerateVideoResponse("s1", resp)
       IN /\ answer => request["s1"].phase = "sent" /\ request'["s1"] = NoRequest
          /\ request'["s1"] # request["s1"] => submit \/ answer
          /\ (request'["s1"] # request["s1"] /\ request'["s1"].phase = "sent")
               => request["s1"] = NoRequest /\ submit]_vars

\* A request has just failed: the error is shown and no request is in flight.
C21_Witness ==
    /\ toast["s1"] = "error"
    /\ request["s1"] = NoRequest
    /\ ~pageLoading["s1"]

\* C22: a call deleteFileFromFirebase(path) with an empty path raises an
\* error and reaches no storage call.  When the path holds no object Storage
\* answers object-not-found and removes nothing, and the call then returns
\* without raising, so a second delete of a path succeeds like the first;
\* when the path holds an object it is removed and the call returns; and the
\* call raises any other storage error to its caller.
C22_DeleteIsIdempotent ==
    [][LET call == remove["s1"] IN
       /\ (\E path \in DeletePaths :
              path = <<>> /\ deleteFileFromFirebase("s1", path))
            => /\ rejection' = PathRequired("s1")
               /\ remove' = remove /\ objects' = objects
       /\ (call = NoRemove /\ remove'["s1"].phase = "sent")
            => /\ rejection' = NoRejection /\ objects' = objects
               /\ remove'["s1"].storagePath # <<>>
       /\ (call.phase = "sent" /\ remove'["s1"].phase = "answered"
              /\ call.storagePath \notin objects)
            => /\ objects' = objects
               /\ remove'["s1"].code \in {"storage/object-not-found", "storage/unauthorized"}
       /\ (call.phase = "sent" /\ remove'["s1"].code = "ok")
            => call.storagePath \in objects /\ objects' = objects \ {call.storagePath}
       /\ (call.phase = "answered" /\ remove'["s1"] = NoRemove)
            => /\ objects' = objects
               /\ call.code \in {"ok", "storage/object-not-found"}
                    => rejection' = NoRejection
               /\ call.code \notin {"ok", "storage/object-not-found"}
                    => rejection' = StorageFailed("s1")]_vars

\* Storage has answered object-not-found to the delete of a path that holds
\* no object, while another upload is stored: the call is about to return.
C22_Witness ==
    /\ remove["s1"].phase = "answered"
    /\ remove["s1"].code = "storage/object-not-found"
    /\ remove["s1"].storagePath \notin objects
    /\ objects # {}

\* C24: a call uploadFileToFirebase(userId, file, contentType) at time
\* timestamp with a user id and a file uploads to the path
\* generations/contentType/userId/timestamp_name, where name has the length
\* of file.name and holds, at each place, the character of file.name when it
\* is one of a-z, A-Z, 0-9, '.', '_', '-', and '_' otherwise; the object is
\* stored at that path.  With an empty user id or no file the call raises an
\* error and reaches no storage call.
C24_UploadPath ==
    [][/\ \A userId \in UploadUserIds, file \in Files, contentType \in ContentTypes,
            timestamp \in Timestamps :
            uploadFileToFirebase("s1", userId, file, contentType, timestamp)
            => IF userId = "" \/ ~file.present
               THEN /\ rejection'.sid = "s1"
                    /\ upload' = upload /\ objects' = objects
               ELSE LET path == upload'["s1"].storagePath IN
                    /\ rejection' = NoRejection
                    /\ upload'["s1"].phase = "sent"
                    /\ Len(path) = 8 + Len(file.name)
                    /\ SubSeq(path, 1, 8) =
                          <<"generations", "/", contentType, "/", userId, "/",
                            timestamp, "_">>
                    /\ \A i \in 1 .. Len(file.name) :
                          /\ path[8 + i] \in Letters \cup Digits \cup {".", "_", "-"}
                          /\ file.name[i] \in Letters \cup Digits \cup {".", "_", "-"}
                                => path[8 + i] = file.name[i]
                          /\ file.name[i] \notin Letters \cup Digits \cup {".", "_", "-"}
                                => path[8 + i] = "_"
       /\ (upload["s1"].phase = "sent" /\ upload'["s1"].phase = "stored")
            => objects' = objects \cup {upload["s1"].storagePath}
       /\ objects' # objects /\ objects \subseteq objects'
            => upload["s1"].phase = "sent" /\ upload'["s1"].phase = "stored"]_vars

\* The file "my cat" and the file "../x-1" were uploaded as images: they are
\* stored under the names "my_cat" and ".._x-1".
C24_Witness ==
    /\ <<"generations", "/", "image", "/", "u1", "/", "1700000000000", "_",
          "m", "y", "_", "c", "a", "t">> \in objects
    /\ <<"generations", "/", "image", "/", "u1", "/", "1700000000001", "_",
          ".", ".", "_", "x", "-", "1">> \in objects
    /\ upload["s1"] = NoUpload

\* C23: no step changes or removes a generation record or a payment record
\* once written: the records a collection held before a step are the first
\* records it holds after it, field by field, and a step adds at most one
\* record, with an id no record has yet.  A generation record added without a
\* status is stored with the status completed.
C23_RecordsAreImmutable ==
    [][/\ Len(generationsDb') >= Len(generationsDb)
       /\ Len(paymentsDb') >= Len(paymentsDb)
       /\ Len(generationsDb') + Len(paymentsDb')
             <= Len(generationsDb) + Len(paymentsDb) + 1
       /\ \A i \in 1 .. Len(generationsDb) : generationsDb'[i] = generationsDb[i]
       /\ \A i \in 1 .. Len(paymentsDb) : paymentsDb'[i] = paymentsDb[i]
       /\ \A i \in 1 .. Len(generationsDb), j \in 1 .. Len(generationsDb') :
             i # j => generationsDb'[j].id # generationsDb[i].id
       /\ \A i \in 1 .. Len(paymentsDb), j \in 1 .. Len(paymentsDb') :
             i # j => paymentsDb'[j].id # paymentsDb[i].id
       /\ \A data \in GenerationInputs :
             (data.status = "unset" /\ addGeneration("s1", data))
             => genAdd'["s1"].record.status = "completed"
       /\ Len(generationsDb') > Len(generationsDb)
             => /\ generationsDb'[Len(generationsDb')] = genAdd["s1"].record
                /\ genAdd["s1"].record.status \in {"completed", "failed"}]_vars

\* Two payment records and a generation record are stored, the generation
\* record added without a status.
C23_Witness ==
    /\ Len(paymentsDb) = 2
    /\ Len(generationsDb) = 1
    /\ generationsDb[1].status = "completed"
    /\ paymentsDb[1].status = "pending"

\* C25 as stated: in one session that is the only writer of its owner's
\* document, whatever the order of fetchUserProfile and of decrementCredits
\* calls with positive amounts, the stored balance is never below zero.
C25_StoredNeverNegative ==
    users["u1"].exists => users["u1"].credits >= 0

\* C26 as stated: in one session, when the write of a decrementCredits call
\* fails after a fetch replaced the local profile (the local balance is no
\* longer the one the optimistic subtraction left), the revert leaves the local
\* balance equal to the stored one, and so not above it.
C26_RevertAfterFetchMatchesStore ==
    [][(/\ deduct["s1"].phase = "sent"
        /\ deduct'["s1"] = NoDeduct
        /\ rejection' = WriteFailed("s1")
        /\ userProfile["s1"] # Null
        /\ userProfile["s1"].credits #
              deduct["s1"].currentProfile.credits - deduct["s1"].amount)
       => /\ userProfile'["s1"].credits = users'[userProfile'["s1"].id].credits
          /\ userProfile'["s1"].credits <= users'[userProfile'["s1"].id].credits]_vars

\* C27 as stated: whenever an image handler starts adding a generation
\* record of cost c, the decrementCredits(c) call of the same step passed its
\* check (it raised nothing and its write of c is in flight); and a record of
\* cost c is never awaiting its write, or stored, after the write of that
\* charge has failed.
C27_RecordOnlyIfCharged ==
    [][/\ (genAdd["s1"] = NoAdd /\ genAdd'["s1"].phase = "sent")
            => /\ rejection' = NoRejection
               /\ deduct'["s1"].phase = "sent"
               /\ deduct'["s1"].amount = genAdd'["s1"].record.cost
       /\ (deduct["s1"].phase = "sent" /\ rejection' = WriteFailed("s1"))
            => genAdd["s1"] = NoAdd /\ generationsDb = <<>>]_vars

\* C28 as stated: when an updateUserProfile call whose partial profile does
\* not carry credits sets the merged profile, the local credit balance is the
\* one the store held just before, whatever decrementCredits did to it while
\* the write was in flight.
C28_UpdateKeepsLocalCredits ==
    [][(/\ update["s1"].phase = "written"
        /\ update'["s1"] = NoUpdate
        /\ ~("credits" \in update["s1"].data.has)
        /\ userProfile["s1"] # Null)
       => userProfile'["s1"].credits = userProfile["s1"].credits]_vars

\* C29 as stated: a decrementCredits(amount) call that completes without
\* error, made with the local balance equal to the stored balance and nothing
\* else in flight, leaves the local balance equal to the stored balance: both
\* when the call completes at once because no write is issued (amount zero or
\* negative) and when it completes as its write lands (positive amount).
C29_DecrementKeepsLocalEqualStored ==
    [][/\ (/\ deduct["s1"] = NoDeduct /\ deduct'["s1"] = NoDeduct
            /\ fetch["s1"] = NoFetch /\ fetch'["s1"] = NoFetch
            /\ rejection' = NoRejection
            /\ userProfile["s1"] # Null
            /\ users[userProfile["s1"].id].exists
            /\ userProfile["s1"].credits = users[userProfile["s1"].id].credits)
           => userProfile'["s1"].credits = users'[userProfile'["s1"].id].credits
       /\ (/\ deduct["s1"].phase = "sent" /\ deduct'["s1"] = NoDeduct
            /\ fetch["s1"] = NoFetch
            /\ rejection' = NoRejection
            /\ userProfile["s1"] # Null
            /\ userProfile["s1"].credits =
                  deduct["s1"].currentProfile.credits - deduct["s1"].amount
            /\ users[userProfile["s1"].id].credits =
                  deduct["s1"].currentProfile.credits)
           => userProfile'["s1"].credits = users'[userProfile'["s1"].id].credits]_vars

\* C30 as stated: when the read of a fetchUserGenerations call for owner A,
\* which found records, is the last to complete, after a later call left
\* records of another owner in the local collection and no call is in flight
\* or has failed, the local collection still holds records, none of them
\* owner A's.
C30_LatestRequestedOwnerWins ==
    [][(/\ genFetchEarlier["s1"].phase = "served"
        /\ genFetchEarlier["s1"].result # <<>>
        /\ genFetchEarlier'["s1"] = NoGenFetch
        /\ genFetch["s1"] = NoGenFetch
        /\ genAdd["s1"] = NoAdd
        /\ ~genError["s1"]
        /\ generations["s1"] # <<>>
        /\ \A i \in DOMAIN generations["s1"] :
              generations["s1"][i].userId # genFetchEarlier["s1"].userId)
       => /\ generations'["s1"] # <<>>
          /\ \A i \in DOMAIN generations'["s1"] :
                generations'["s1"][i].userId # genFetchEarlier["s1"].userId]_vars

====
